---- MODULE Spec2Model ----
(***************************************************************************)
(* Authentication / session subsystem of the FastAPI backend template:     *)
(* AuthService (JWT issue / verify, login, refresh, current user, logout)  *)
(* on top of UserService / UserRepository (the users table).               *)
(*                                                                         *)
(* Strings the code inspects or converts (emails, usernames, str(uuid))    *)
(* are sequences of one-character strings; opaque strings (passwords,      *)
(* error codes, messages) are TLA+ strings.  Time is counted in ticks of   *)
(* 1/TicksPerSecond second, so that the truncation of "exp" to whole       *)
(* seconds by the JWT encoder is visible.                                  *)
(***************************************************************************)
EXTENDS Integers, Sequences, FiniteSets, TLC

VARIABLES
    users,      \* the users table: id -> row
    nextId,     \* next fresh primary key (uuid4 never repeats)
    now,        \* the clock (datetime.utcnow()), in ticks
    nticks,     \* how often the clock has advanced
    nreq,       \* how many requests have been served
    issued,     \* tokens handed to clients, with issue time and requested lifetime
    pcLogin,    \* the login request in flight between its two database accesses
    session,    \* the database session scope in flight (get_db / get_db_context)
    calls,      \* the lifecycle calls in flight, each at its position
    resp        \* the last response returned by an operation

vars == <<users, nextId, now, nticks, nreq, issued, pcLogin, session, calls, resp>>

----------------------------------------------------------------------------
(* Bounds of the model *)

MaxUsers == 2
MaxTokens == 4
MaxTicks == 1
MaxRequests == 4
MaxWrites == 2
MaxCalls == 2
TicksPerSecond == 2

(* Program constants *)

JWT_ACCESS_TOKEN_EXPIRE_MINUTES == 30
JWT_REFRESH_TOKEN_EXPIRE_DAYS == 7
HTTP_401_UNAUTHORIZED == 401

SecondsPerMinute == 60
SecondsPerDay == 86400

(* The signing key settings.SECRET_KEY, and a key that is not it *)
SECRET_KEY == "secret"
OtherKey == "not-the-secret"

----------------------------------------------------------------------------
(* Optional values: None of each type *)

NoneStr == << >>
NoneId == 0
NoneTime == -1
NoLifetime == -1000000

----------------------------------------------------------------------------
(* Characters and strings *)

UpperChars == <<"A","B","C","D","E","F","G","H","I","J","K","L","M",
                "N","O","P","Q","R","S","T","U","V","W","X","Y","Z">>
LowerChars == <<"a","b","c","d","e","f","g","h","i","j","k","l","m",
                "n","o","p","q","r","s","t","u","v","w","x","y","z">>
DigitChars == <<"0","1","2","3","4","5","6","7","8","9">>

Range(s) == { s[i] : i \in DOMAIN s }

\* str.lower() on one character
LowerChar(c) ==
    IF \E i \in DOMAIN UpperChars : UpperChars[i] = c
    THEN LowerChars[CHOOSE i \in DOMAIN UpperChars : UpperChars[i] = c]
    ELSE c

\* str.lower()
Lower(v) == [i \in DOMAIN v |-> LowerChar(v[i])]

\* str.isalnum(): non-empty and every character a letter or a digit
IsAlnum(v) ==
    /\ Len(v) > 0
    /\ \A i \in DOMAIN v :
          v[i] \in Range(UpperChars) \cup Range(LowerChars) \cup Range(DigitChars)

\* str(user.id): the textual form of a primary key
UuidStr(id) == <<"u", DigitChars[id + 1]>>

\* uuid.UUID(s): the key a text denotes, NoneId standing for ValueError
ParseUuid(s) ==
    IF /\ Len(s) = 2
       /\ s[1] = "u"
       /\ \E d \in 2..Len(DigitChars) : DigitChars[d] = s[2]
    THEN (CHOOSE d \in 2..Len(DigitChars) : DigitChars[d] = s[2]) - 1
    ELSE NoneId

----------------------------------------------------------------------------
(* Results: a value, or an APIException(status_code, message, error_code) *)

NoValue == [none |-> TRUE]

Ok(v) == [ok |-> TRUE, status |-> 200, code |-> "OK", message |-> "", value |-> v]

APIException(status, message, code) ==
    [ok |-> FALSE, status |-> status, code |-> code, message |-> message,
     value |-> NoValue]

----------------------------------------------------------------------------
(* TokenCodec: AuthService.create_*_token and verify_token over PyJWT *)

AccessLifetime == JWT_ACCESS_TOKEN_EXPIRE_MINUTES * SecondsPerMinute * TicksPerSecond
RefreshLifetime == JWT_REFRESH_TOKEN_EXPIRE_DAYS * SecondsPerDay * TicksPerSecond

\* dict.update: the keys of upd override those of d
DictUpdate(d, upd) == upd @@ d

\* dict.get(key, default)
DictGet(d, key, default) == IF key \in DOMAIN d THEN d[key] ELSE default

\* PyJWT writes a datetime "exp" as whole seconds since the epoch (timegm)
ExpClaim(t) == t \div TicksPerSecond

\* the HMAC of a payload under a key
Sign(payload, key) == [key |-> key, over |-> payload]

\* jwt.encode(payload, key): the payload and its keyed signature
JwtEncode(payload, key) == [payload |-> payload, sig |-> Sign(payload, key)]

\* jwt.decode(token, key): signature first, then the "exp" claim (exp <= now)
JwtDecode(token, key, t) ==
    IF token.sig # Sign(token.payload, key)
    THEN [error |-> "PyJWTError", payload |-> NoValue]
    ELSE IF /\ "exp" \in DOMAIN token.payload
            /\ token.payload.exp * TicksPerSecond <= t
         THEN [error |-> "ExpiredSignatureError", payload |-> NoValue]
         ELSE [error |-> "", payload |-> token.payload]

\* the expiry instant create_*_token computes: "if expires_delta:" is a truth test
ExpireAt(t, expires_delta, default) ==
    IF expires_delta # NoLifetime /\ expires_delta # 0
    THEN t + expires_delta
    ELSE t + default

create_access_token(data, expires_delta, t) ==
    JwtEncode(DictUpdate(data, [exp |-> ExpClaim(ExpireAt(t, expires_delta, AccessLifetime)),
                                type |-> "access"]),
              SECRET_KEY)

create_refresh_token(data, expires_delta, t) ==
    JwtEncode(DictUpdate(data, [exp |-> ExpClaim(ExpireAt(t, expires_delta, RefreshLifetime)),
                                type |-> "refresh"]),
              SECRET_KEY)

TokenData(user_id, username, email, is_superuser, is_verified) ==
    [user_id |-> user_id, username |-> username, email |-> email,
     is_superuser |-> is_superuser, is_verified |-> is_verified]

TokenExpiredError ==
    APIException(HTTP_401_UNAUTHORIZED, "Token has expired", "TOKEN_EXPIRED")
TokenMalformedError ==
    APIException(HTTP_401_UNAUTHORIZED, "Could not validate credentials", "INVALID_TOKEN")
TokenTypeError ==
    APIException(HTTP_401_UNAUTHORIZED, "Invalid token type", "INVALID_TOKEN")
TokenPayloadError ==
    APIException(HTTP_401_UNAUTHORIZED, "Invalid token payload", "INVALID_TOKEN_PAYLOAD")

\* verify_token without its "Check token type" step
verify_token_NoTypeCheck(token, token_type, t) ==
    LET dec == JwtDecode(token, SECRET_KEY, t)
        payload == dec.payload
    IN  IF dec.error = "ExpiredSignatureError" THEN TokenExpiredError
        ELSE IF dec.error = "PyJWTError" THEN TokenMalformedError
        ELSE IF DictGet(payload, "sub", NoneStr) = NoneStr THEN TokenPayloadError
        ELSE IF ParseUuid(payload.sub) = NoneId THEN TokenPayloadError
        ELSE Ok(TokenData(ParseUuid(payload.sub),
                          DictGet(payload, "username", NoneStr),
                          DictGet(payload, "email", NoneStr),
                          DictGet(payload, "is_superuser", FALSE),
                          DictGet(payload, "is_verified", FALSE)))

\* verify_token reading is_verified from the is_superuser claim
verify_token_WrongFlag(token, token_type, t) ==
    LET dec == JwtDecode(token, SECRET_KEY, t)
        payload == dec.payload
    IN  IF dec.error = "ExpiredSignatureError" THEN TokenExpiredError
        ELSE IF dec.error = "PyJWTError" THEN TokenMalformedError
        ELSE IF DictGet(payload, "type", "") # token_type THEN TokenTypeError
        ELSE IF DictGet(payload, "sub", NoneStr) = NoneStr THEN TokenPayloadError
        ELSE IF ParseUuid(payload.sub) = NoneId THEN TokenPayloadError
        ELSE Ok(TokenData(ParseUuid(payload.sub),
                          DictGet(payload, "username", NoneStr),
                          DictGet(payload, "email", NoneStr),
                          DictGet(payload, "is_superuser", FALSE),
                          DictGet(payload, "is_superuser", FALSE)))

verify_token(token, token_type, t) ==
    LET dec == JwtDecode(token, SECRET_KEY, t)
        payload == dec.payload
    IN  IF dec.error = "ExpiredSignatureError" THEN TokenExpiredError
        ELSE IF dec.error = "PyJWTError" THEN TokenMalformedError
        ELSE IF DictGet(payload, "type", "") # token_type THEN TokenTypeError
        ELSE IF DictGet(payload, "sub", NoneStr) = NoneStr THEN TokenPayloadError
        ELSE IF ParseUuid(payload.sub) = NoneId THEN TokenPayloadError
        ELSE Ok(TokenData(ParseUuid(payload.sub),
                          DictGet(payload, "username", NoneStr),
                          DictGet(payload, "email", NoneStr),
                          DictGet(payload, "is_superuser", FALSE),
                          DictGet(payload, "is_verified", FALSE)))

----------------------------------------------------------------------------
(* Request schemas: UserBase / UserCreateSchema (pydantic) *)

\* EmailStr: one "@", a non-empty local part, a dotted domain
ValidEmail(v) ==
    \E a \in 2..(Len(v) - 3) :
        /\ v[a] = "@"
        /\ \A i \in DOMAIN v : v[i] = "@" => i = a
        /\ \E d \in (a + 2)..(Len(v) - 1) : v[d] = "."
        /\ v[a + 1] # "." /\ v[Len(v)] # "."

\* EmailStr lower-cases the domain part
NormalizeEmail(v) ==
    LET a == CHOOSE i \in DOMAIN v : v[i] = "@"
    IN  [i \in DOMAIN v |-> IF i > a THEN LowerChar(v[i]) ELSE v[i]]

\* UserBase.username: Field(min_length=3, max_length=100), then validate_username
UsernameAccepted(v) ==
    /\ Len(v) >= 3
    /\ Len(v) <= 100
    /\ ~(~IsAlnum(v) /\ "_" \notin Range(v) /\ "-" \notin Range(v))

validate_username(v) == Lower(v)

\* UserCreateSchema.validate_password
validate_password(v) ==
    /\ Len(v) >= 8
    /\ Len(v) <= 255
    /\ \E i \in DOMAIN v : v[i] \in Range(UpperChars)
    /\ \E i \in DOMAIN v : v[i] \in Range(LowerChars)
    /\ \E i \in DOMAIN v : v[i] \in Range(DigitChars)

\* whether a request body passes UserCreateSchema
UserCreateSchemaAccepts(body) ==
    /\ ValidEmail(body.email)
    /\ UsernameAccepted(body.username)
    /\ validate_password(body.password)

\* UserCreateSchema(...).model_dump(exclude_unset=True): the validated fields
\* a model_dump that leaves the privilege flags of the body out
UserCreateSchemaDump_NoFlags(body) ==
    [key \in DOMAIN body \ {"is_active", "is_superuser", "is_verified"} |->
        IF key = "email" THEN NormalizeEmail(body.email)
        ELSE IF key = "username" THEN validate_username(body.username)
        ELSE body[key]]

UserCreateSchemaDump(body) ==
    DictUpdate(body, [email |-> NormalizeEmail(body.email),
                      username |-> validate_username(body.username)])

----------------------------------------------------------------------------
(* PasswordHasher: passlib CryptContext(schemes=["bcrypt"]) *)

SaltInputs == {"salt1"}

hash_password(password, salt) ==
    [scheme |-> "bcrypt", salt |-> salt, digest |-> <<salt, password>>]

verify_password(plain_password, hashed_password) ==
    hashed_password.digest = <<hashed_password.salt, plain_password>>

\* what a call of verify_password does for any value of the hashed_password
\* column. pwd_context.verify raises UnknownHashError for a string that no
\* configured scheme identifies, and the bcrypt handler raises ValueError for
\* one that starts like a bcrypt digest and is not one; verify_password has no
\* handler for either.
verify_password_call(plain_password, hashed_password) ==
    IF hashed_password.scheme = "bcrypt"
    THEN [raised |-> "", returned |-> verify_password(plain_password, hashed_password)]
    ELSE IF hashed_password.scheme = "bcrypt_malformed"
    THEN [raised |-> "ValueError", returned |-> FALSE]
    ELSE [raised |-> "UnknownHashError", returned |-> FALSE]

----------------------------------------------------------------------------
(* The users table and UserRepository / BaseRepository *)

\* column defaults of a new row (models/base.py, models/user.py)
RowDefaults ==
    [full_name |-> NoneStr, is_active |-> TRUE, is_superuser |-> FALSE,
     is_verified |-> FALSE, last_login |-> NoneTime,
     created_by |-> NoneId, updated_by |-> NoneId]

\* a missing row / a None entity
NoRow == [id |-> NoneId]

\* BaseRepository.get
RepoGet(tbl, id) == IF id \in DOMAIN tbl THEN tbl[id] ELSE NoRow

\* BaseRepository.create: the table with the new row, defaults filled in
RepoCreate(tbl, id, obj_in) ==
    [i \in DOMAIN tbl \cup {id} |->
        IF i = id THEN DictUpdate(DictUpdate(RowDefaults, obj_in), [id |-> id])
        ELSE tbl[i]]

\* BaseRepository.update: setattr for every key the row has; absent id: no change
RepoUpdate(tbl, id, obj_in) ==
    IF id \notin DOMAIN tbl THEN tbl
    ELSE [tbl EXCEPT ![id] =
            [k \in DOMAIN tbl[id] |->
                IF k \in DOMAIN obj_in THEN obj_in[k] ELSE tbl[id][k]]]

\* BaseRepository.delete
RepoDelete(tbl, id) == [i \in DOMAIN tbl \ {id} |-> tbl[i]]

\* the attributes hasattr(self.model, key) finds among the modelled columns
UserColumns ==
    {"id", "email", "username", "full_name", "hashed_password", "is_active",
     "is_superuser", "is_verified", "last_login", "created_by", "updated_by"}

\* column ILIKE pattern: "%" stands for any run of characters, "_" for any
\* one character, every other character for itself in either case
RECURSIVE Ilike(_, _)
Ilike(v, pattern) ==
    IF pattern = << >> THEN v = << >>
    ELSE IF Head(pattern) = "%"
         THEN Ilike(v, Tail(pattern)) \/ (v # << >> /\ Ilike(Tail(v), pattern))
         ELSE /\ v # << >>
              /\ Head(pattern) = "_" \/ LowerChar(Head(pattern)) = LowerChar(Head(v))
              /\ Ilike(Tail(v), Tail(pattern))

\* f"%{value}%"
LikePattern(value) == <<"%">> \o value \o <<"%">>

\* the WHERE clause get_multi builds: every usable filter key as an equality,
\* every usable search key as an ILIKE, all ANDed. The modelled values have no
\* accents, so unaccent leaves them as they are.
RowSelected(row, filters, search) ==
    /\ \A key \in DOMAIN filters :
          (key \in UserColumns /\ filters[key] # NoneStr) => row[key] = filters[key]
    /\ \A key \in DOMAIN search :
          (key \in UserColumns /\ search[key] # NoneStr) =>
              Ilike(row[key], LikePattern(search[key]))

\* the ids of the rows the WHERE clause selects
Selected(tbl, filters, search) ==
    { id \in DOMAIN tbl : RowSelected(tbl[id], filters, search) }

\* the orders in which a query without ORDER BY may return a set of rows
Orders(ids) ==
    { order \in [1..Cardinality(ids) -> ids] :
        \A i \in DOMAIN order : \A j \in DOMAIN order : order[i] = order[j] => i = j }

\* query.offset(skip).limit(limit).all() over rows that come in this order
Window_IgnoresSkip(order, skip, limit) ==
    SubSeq(order, 1, IF limit < Len(order) THEN limit ELSE Len(order))

Window(order, skip, limit) ==
    SubSeq(order, skip + 1, IF skip + limit < Len(order) THEN skip + limit ELSE Len(order))

\* BaseRepository.get_multi with count=True: the items and query.count()
RepoGetMulti(tbl, order, skip, limit, filters, search) ==
    [items |-> [i \in DOMAIN Window(order, skip, limit) |-> tbl[Window(order, skip, limit)[i]]],
     total |-> Cardinality(Selected(tbl, filters, search))]

\* UserRepository.get_by_email_or_username: the rows first() may return
MatchingRows(tbl, identifier) ==
    { id \in DOMAIN tbl :
        tbl[id].email = identifier \/ tbl[id].username = identifier }

\* is_email_taken looking at active rows only
is_email_taken_ActiveOnly(tbl, email, exclude_user_id) ==
    \E id \in DOMAIN tbl :
        /\ tbl[id].is_active
        /\ tbl[id].email = email /\ (exclude_user_id # NoneId => id # exclude_user_id)

\* UserRepository.is_email_taken / is_username_taken
is_email_taken(tbl, email, exclude_user_id) ==
    \E id \in DOMAIN tbl :
        tbl[id].email = email /\ (exclude_user_id # NoneId => id # exclude_user_id)

is_username_taken(tbl, username, exclude_user_id) ==
    \E id \in DOMAIN tbl :
        tbl[id].username = username /\ (exclude_user_id # NoneId => id # exclude_user_id)

----------------------------------------------------------------------------
(* Projections: UserResponseSchema and CurrentUserSchema *)

\* UserResponseSchema.model_validate(user.to_dict()): UserBase's validators
\* run again; the password hash and the audit fields are not part of it
UserResponseSchema(row) ==
    [id |-> row.id, email |-> NormalizeEmail(row.email),
     username |-> validate_username(row.username), full_name |-> row.full_name,
     is_active |-> row.is_active, is_superuser |-> row.is_superuser,
     is_verified |-> row.is_verified, last_login |-> row.last_login]

\* CurrentUserSchema.model_validate(user.model_dump())
CurrentUserSchema(user) ==
    [id |-> user.id, email |-> user.email, username |-> user.username,
     full_name |-> user.full_name, is_active |-> user.is_active,
     is_superuser |-> user.is_superuser, is_verified |-> user.is_verified,
     last_login |-> user.last_login]

\* UserService.get_by_id: the projection, or NoValue for None
get_by_id(tbl, id) ==
    IF id \in DOMAIN tbl THEN UserResponseSchema(tbl[id]) ELSE NoValue

----------------------------------------------------------------------------
(* UserService (UserDirectory) and the BaseService lifecycle operations.   *)
(* Each returns the table it leaves behind and its result.                 *)

Outcome(tbl, result) == [tbl |-> tbl, result |-> result]

\* _validate_create without its username test
validate_create_EmailOnly(tbl, obj_data) ==
    IF /\ DictGet(obj_data, "email", NoneStr) # NoneStr
       /\ is_email_taken(tbl, obj_data.email, NoneId)
    THEN APIException(400, "Email already registered", "DUPLICATE_EMAIL")
    ELSE Ok(NoValue)

\* UserService._validate_create
validate_create(tbl, obj_data) ==
    IF /\ DictGet(obj_data, "email", NoneStr) # NoneStr
       /\ is_email_taken(tbl, obj_data.email, NoneId)
    THEN APIException(400, "Email already registered", "DUPLICATE_EMAIL")
    ELSE IF /\ DictGet(obj_data, "username", NoneStr) # NoneStr
            /\ is_username_taken(tbl, obj_data.username, NoneId)
         THEN APIException(400, "Username already taken", "DUPLICATE_USERNAME")
         ELSE Ok(NoValue)

\* UserService._validate_update
validate_update(tbl, id, obj_data) ==
    IF /\ DictGet(obj_data, "email", NoneStr) # NoneStr
       /\ is_email_taken(tbl, obj_data.email, id)
    THEN APIException(400, "Email already registered by another user", "DUPLICATE_EMAIL")
    ELSE IF /\ DictGet(obj_data, "username", NoneStr) # NoneStr
            /\ is_username_taken(tbl, obj_data.username, id)
         THEN APIException(400, "Username already taken by another user",
                           "DUPLICATE_USERNAME")
         ELSE Ok(NoValue)

\* the audit fields an operation adds: "if current_user_id:"
AuditCreate(current_user_id) ==
    IF current_user_id # NoneId
    THEN [created_by |-> current_user_id, updated_by |-> current_user_id]
    ELSE << >>

\* an update that writes updated_by whether or not an actor is given
AuditUpdate_Unconditional(current_user_id) == [updated_by |-> current_user_id]

AuditUpdate(current_user_id) ==
    IF current_user_id # NoneId THEN [updated_by |-> current_user_id] ELSE << >>

\* a payload that keeps its password
WithoutPassword_Keeps(obj_data) == obj_data

\* obj_data.pop("password")
WithoutPassword(obj_data) == [k \in DOMAIN obj_data \ {"password"} |-> obj_data[k]]

\* UserService.create
create(tbl, id, obj_in, current_user_id, salt) ==
    LET dumped == UserCreateSchemaDump(obj_in)
        obj_data == DictUpdate(DictUpdate(WithoutPassword(dumped),
                                  [hashed_password |-> hash_password(dumped.password, salt)]),
                               AuditCreate(current_user_id))
        valid == validate_create(tbl, obj_data)
    IN  IF ~valid.ok THEN Outcome(tbl, valid)
        ELSE LET after == RepoCreate(tbl, id, obj_data)
             IN  Outcome(after, Ok(UserResponseSchema(after[id])))

\* BaseService.update
update(tbl, id, obj_data, current_user_id) ==
    IF RepoGet(tbl, id) = NoRow THEN Outcome(tbl, Ok(NoValue))
    ELSE LET data == DictUpdate(obj_data, AuditUpdate(current_user_id))
             valid == validate_update(tbl, id, data)
         IN  IF ~valid.ok THEN Outcome(tbl, valid)
             ELSE LET after == RepoUpdate(tbl, id, data)
                  IN  Outcome(after, Ok(UserResponseSchema(after[id])))

\* soft_delete flipping is_active instead of clearing it
soft_delete_Toggle(tbl, id, current_user_id) ==
    IF RepoGet(tbl, id) = NoRow THEN Outcome(tbl, Ok(NoValue))
    ELSE LET after == RepoUpdate(tbl, id, DictUpdate([is_active |-> ~tbl[id].is_active],
                                                     AuditUpdate(current_user_id)))
         IN  Outcome(after, Ok(UserResponseSchema(after[id])))

\* soft_delete removing the row
soft_delete_Removes(tbl, id, current_user_id) ==
    IF RepoGet(tbl, id) = NoRow THEN Outcome(tbl, Ok(NoValue))
    ELSE Outcome(RepoDelete(tbl, id), Ok(UserResponseSchema(tbl[id])))

\* BaseService.soft_delete
soft_delete(tbl, id, current_user_id) ==
    IF RepoGet(tbl, id) = NoRow THEN Outcome(tbl, Ok(NoValue))
    ELSE LET after == RepoUpdate(tbl, id, DictUpdate([is_active |-> FALSE],
                                                     AuditUpdate(current_user_id)))
         IN  Outcome(after, Ok(UserResponseSchema(after[id])))

\* BaseService.restore
restore(tbl, id, current_user_id) ==
    IF RepoGet(tbl, id) = NoRow THEN Outcome(tbl, Ok(NoValue))
    ELSE LET after == RepoUpdate(tbl, id, DictUpdate([is_active |-> TRUE],
                                                     AuditUpdate(current_user_id)))
         IN  Outcome(after, Ok(UserResponseSchema(after[id])))

\* BaseService.delete (hard delete)
delete(tbl, id) ==
    IF RepoGet(tbl, id) = NoRow THEN Outcome(tbl, Ok(FALSE))
    ELSE Outcome(RepoDelete(tbl, id), Ok(TRUE))

\* what reaches the caller when the database refuses a negative OFFSET or
\* PaginationSchema refuses the offset or the limit: not an APIException
UnstructuredError == APIException(500, "Internal Server Error", "UNSTRUCTURED")

\* PaginationSchema: offset ge=0, limit ge=1 le=100
PaginationSchemaAccepts(offset, limit) == offset >= 0 /\ limit >= 1 /\ limit <= 100

\* BaseService.get_multi
get_multi(tbl, order, skip, limit, filters, search, include_count) ==
    IF skip < 0 \/ limit < 0 THEN UnstructuredError
    ELSE LET found == RepoGetMulti(tbl, order, skip, limit, filters, search)
             items == [i \in DOMAIN found.items |-> UserResponseSchema(found.items[i])]
         IN  IF ~PaginationSchemaAccepts(skip, limit) THEN UnstructuredError
             ELSE Ok([items |-> items,
                      pagination |-> [offset |-> skip, limit |-> limit,
                                      total |-> IF include_count THEN found.total
                                                ELSE Len(found.items)]])

\* UserService.authenticate up to update_last_login: whether the row that
\* get_by_email_or_username returned passes the password and is_active tests
authenticate_check(user, password) ==
    /\ user # NoRow
    /\ verify_password(password, user.hashed_password)
    /\ user.is_active

\* UserService.authenticate from update_last_login on. user is the entity
\* loaded before; repository.update refreshes it from its row when the row is
\* still there, and leaves it as loaded when the row is gone.
authenticate_finish(tbl, user, t) ==
    LET after == RepoUpdate(tbl, user.id, [last_login |-> t])
        entity == IF user.id \in DOMAIN after THEN after[user.id] ELSE user
    IN  Outcome(after, UserResponseSchema(entity))

InvalidPasswordError == APIException(400, "Current password is incorrect", "INVALID_PASSWORD")

\* UserService.change_password
\* change_password answering True without writing the new digest
change_password_KeepsHash(tbl, user_id, current_password, new_password, salt) ==
    IF RepoGet(tbl, user_id) = NoRow THEN Outcome(tbl, Ok(FALSE))
    ELSE IF ~verify_password(current_password, tbl[user_id].hashed_password)
         THEN Outcome(tbl, InvalidPasswordError)
         ELSE Outcome(tbl, Ok(TRUE))

change_password(tbl, user_id, current_password, new_password, salt) ==
    IF RepoGet(tbl, user_id) = NoRow THEN Outcome(tbl, Ok(FALSE))
    ELSE IF ~verify_password(current_password, tbl[user_id].hashed_password)
         THEN Outcome(tbl, InvalidPasswordError)
         ELSE Outcome(RepoUpdate(tbl, user_id,
                                 [hashed_password |-> hash_password(new_password, salt)]),
                      Ok(TRUE))


----------------------------------------------------------------------------
(* AuthService (SessionManager) *)

\* access claims reduced to the subject
AccessClaims_SubjectOnly(user) == [sub |-> UuidStr(user.id)]

\* the claims login and refresh_token put into an access token
AccessClaims(user) ==
    [sub |-> UuidStr(user.id), username |-> user.username, email |-> user.email,
     is_superuser |-> user.is_superuser, is_verified |-> user.is_verified]

\* the claims they put into a refresh token
RefreshClaims(user) == [sub |-> UuidStr(user.id)]

UserNotFoundError == APIException(HTTP_401_UNAUTHORIZED, "User not found", "USER_NOT_FOUND")
UserInactiveError ==
    APIException(HTTP_401_UNAUTHORIZED, "User account is inactive", "USER_NOT_ACTIVE")
InvalidCredentialsError ==
    APIException(HTTP_401_UNAUTHORIZED, "Incorrect username/email or password",
                 "INVALID_CREDENTIALS")
AccessTokenMissingError ==
    APIException(HTTP_401_UNAUTHORIZED, "Access token required",
                 "ACCESS_TOKEN_NOT_PROVIDED")

\* AuthService.login after authenticate returned auth (NoValue for None)
login_SkipsInactive(auth, t) ==
    IF auth = NoValue THEN InvalidCredentialsError
    ELSE Ok([user |-> CurrentUserSchema(auth),
             access_token |-> create_access_token(AccessClaims(auth), NoLifetime, t),
             refresh_token |-> create_refresh_token(RefreshClaims(auth), NoLifetime, t),
             token_type |-> "bearer",
             expires_in |-> JWT_ACCESS_TOKEN_EXPIRE_MINUTES * SecondsPerMinute])

login(auth, t) ==
    IF auth = NoValue THEN InvalidCredentialsError
    ELSE IF ~auth.is_active THEN UserInactiveError
    ELSE Ok([user |-> CurrentUserSchema(auth),
             access_token |-> create_access_token(AccessClaims(auth), NoLifetime, t),
             refresh_token |-> create_refresh_token(RefreshClaims(auth), NoLifetime, t),
             token_type |-> "bearer",
             expires_in |-> JWT_ACCESS_TOKEN_EXPIRE_MINUTES * SecondsPerMinute])

\* the token pair of a TokenResponseSchema
TokenResponse(access_claims, refresh_claims, t) ==
    Ok([access_token |-> create_access_token(access_claims, NoLifetime, t),
        refresh_token |-> create_refresh_token(refresh_claims, NoLifetime, t),
        token_type |-> "bearer",
        expires_in |-> JWT_ACCESS_TOKEN_EXPIRE_MINUTES * SecondsPerMinute])

\* refresh_token copying the claims of the presented token instead of the user's
refresh_token_StaleClaims(tbl, token, t) ==
    LET verified == verify_token(token, "refresh", t)
        user == IF verified.ok THEN get_by_id(tbl, verified.value.user_id) ELSE NoValue
    IN  IF ~verified.ok THEN verified
        ELSE IF user = NoValue THEN UserNotFoundError
        ELSE IF ~user.is_active THEN UserInactiveError
        ELSE TokenResponse([sub |-> UuidStr(user.id),
                            username |-> verified.value.username,
                            email |-> verified.value.email,
                            is_superuser |-> verified.value.is_superuser,
                            is_verified |-> verified.value.is_verified],
                           RefreshClaims(user), t)

\* refresh_token refusing a token older than the user's last login
refresh_token_RevokesOnLogin(tbl, token, t) ==
    LET verified == verify_token(token, "refresh", t)
        user == IF verified.ok THEN get_by_id(tbl, verified.value.user_id) ELSE NoValue
    IN  IF ~verified.ok THEN verified
        ELSE IF user = NoValue THEN UserNotFoundError
        ELSE IF ~user.is_active THEN UserInactiveError
        ELSE IF /\ user.last_login # NoneTime
                /\ token.payload.exp < ExpClaim(user.last_login + RefreshLifetime)
             THEN TokenMalformedError
        ELSE TokenResponse(AccessClaims(user), RefreshClaims(user), t)

\* AuthService.refresh_token
refresh_token(tbl, token, t) ==
    LET verified == verify_token(token, "refresh", t)
        user == IF verified.ok THEN get_by_id(tbl, verified.value.user_id) ELSE NoValue
    IN  IF ~verified.ok THEN verified
        ELSE IF user = NoValue THEN UserNotFoundError
        ELSE IF ~user.is_active THEN UserInactiveError
        ELSE TokenResponse(AccessClaims(user), RefreshClaims(user), t)

\* get_current_user without its is_active test
get_current_user_NoActiveCheck(tbl, token, t) ==
    LET verified == verify_token(token, "access", t)
        user == IF verified.ok THEN get_by_id(tbl, verified.value.user_id) ELSE NoValue
    IN  IF ~verified.ok THEN verified
        ELSE IF user = NoValue THEN UserNotFoundError
        ELSE Ok(CurrentUserSchema(user))

\* AuthService.get_current_user
get_current_user(tbl, token, t) ==
    LET verified == verify_token(token, "access", t)
        user == IF verified.ok THEN get_by_id(tbl, verified.value.user_id) ELSE NoValue
    IN  IF ~verified.ok THEN verified
        ELSE IF user = NoValue THEN UserNotFoundError
        ELSE IF ~user.is_active THEN UserInactiveError
        ELSE Ok(CurrentUserSchema(user))

\* logout deactivating the account it logs out
logout_Deactivates(tbl, user_id) ==
    Outcome(RepoUpdate(tbl, user_id, [is_active |-> FALSE]), Ok(TRUE))

\* AuthService.logout
logout(tbl, user_id) == Outcome(tbl, Ok(TRUE))

\* a request without an Authorization header
NoToken == JwtEncode([absent |-> TRUE], OtherKey)

\* dependencies.get_current_user and get_current_active_user
get_current_active_user(tbl, credentials, t) ==
    IF credentials = NoToken THEN AccessTokenMissingError
    ELSE LET current == get_current_user(tbl, credentials, t)
         IN  IF ~current.ok THEN current
             ELSE IF ~current.value.is_active THEN UserInactiveError
             ELSE current

----------------------------------------------------------------------------
(* SpecToken: the token codec alone.  A client holds one token at a time, *)
(* issued from chosen claims and a chosen lifetime, and presents it (or a  *)
(* forgery of it) for verification as either kind while the clock runs.    *)

Ali == <<"a","l","i">>
Bob == <<"b","o","b">>
AliMail == <<"a","-","b","@","c",".","i","o">>
BobMail == <<"d","@","c",".","i","o">>

Kinds == {"access", "refresh"}

FullClaims(id, username, email, is_superuser, is_verified) ==
    [sub |-> UuidStr(id), username |-> username, email |-> email,
     is_superuser |-> is_superuser, is_verified |-> is_verified]

ClaimInputs ==
    { FullClaims(1, Ali, AliMail, TRUE, FALSE),
      FullClaims(2, Bob, BobMail, FALSE, TRUE),
      [sub |-> UuidStr(1)],
      [sub |-> UuidStr(2), type |-> "access", exp |-> 0],
      [sub |-> UuidStr(2), type |-> "refresh"],
      [sub |-> <<"x">>],
      [username |-> Ali] }

\* lifetimes in ticks; NoLifetime is "no expires_delta passed"
LifetimeInputs == {NoLifetime, -1, 0, 1, 3}

TickSteps == {1, AccessLifetime, RefreshLifetime}

Entry(tok, kind, data, life, t) ==
    [tok |-> tok, kind |-> kind, data |-> data, life |-> life, at |-> t]

\* what a client can present in place of a token it holds
Forgeries(tok) ==
    { [tok EXCEPT !.sig = Sign(tok.payload, OtherKey)],
      [tok EXCEPT !.payload = DictUpdate(tok.payload, [type |-> "access"])],
      [tok EXCEPT !.payload = DictUpdate(tok.payload, [type |-> "refresh"])],
      [tok EXCEPT !.payload = DictUpdate(tok.payload, [exp |-> tok.payload.exp + SecondsPerDay])] }
    \ {tok}

NoResp == [op |-> "none"]

\* no login request is in flight
Idle == [phase |-> "idle"]

\* no session scope is open
NoSession == [pc |-> "none", kind |-> "none", events |-> << >>]

\* no lifecycle call is in flight
NoCalls == << >>

Init ==
    /\ users = << >>
    /\ nextId = 1
    /\ now = 0
    /\ nticks = 0
    /\ issued = {}
    /\ nreq = 0
    /\ pcLogin = Idle
    /\ resp = NoResp
    /\ session = NoSession
    /\ calls = NoCalls

Tick ==
    /\ nticks < MaxTicks
    /\ \E d \in TickSteps : now' = now + d
    /\ nticks' = nticks + 1
    /\ resp' = [op |-> "tick"]
    /\ UNCHANGED <<users, nextId, nreq, issued, pcLogin>>
    /\ UNCHANGED <<session, calls>>

TokCreateAccess ==
    \E data \in ClaimInputs, life \in LifetimeInputs :
        LET tok == create_access_token(data, life, now)
        IN  /\ issued' = {Entry(tok, "access", data, life, now)}
            /\ resp' = [op |-> "create_access_token", result |-> Ok(tok)]
            /\ UNCHANGED <<session, calls, users, nextId, now, nticks, nreq, pcLogin>>

TokCreateRefresh ==
    \E data \in ClaimInputs, life \in LifetimeInputs :
        LET tok == create_refresh_token(data, life, now)
        IN  /\ issued' = {Entry(tok, "refresh", data, life, now)}
            /\ resp' = [op |-> "create_refresh_token", result |-> Ok(tok)]
            /\ UNCHANGED <<session, calls, users, nextId, now, nticks, nreq, pcLogin>>

TokVerify ==
    \E e \in issued, token_type \in Kinds :
        \E tok \in {e.tok} \cup Forgeries(e.tok) :
            /\ resp' = [op |-> "verify_token", token |-> tok, token_type |-> token_type,
                        result |-> verify_token(tok, token_type, now)]
            /\ UNCHANGED <<session, calls, users, nextId, now, nticks, nreq, issued, pcLogin>>

NextToken == TokCreateAccess \/ TokCreateRefresh \/ TokVerify \/ Tick

SpecToken == Init /\ [][NextToken]_vars

----------------------------------------------------------------------------
(* Spec: the session subsystem over the users table.  Clients register,    *)
(* log in, refresh, call an authenticated endpoint and log out with the    *)
(* tokens they hold; administrators update, soft-delete, restore and       *)
(* delete users.  A login touches the table twice (the lookup, then        *)
(* update_last_login), so other requests may run between its two halves.   *)

Secret1a == <<"S","e","c","r","e","t","1","a">>
Passw0rd == <<"P","a","s","s","w","0","r","d">>

RegisterInputs ==
    { [email |-> AliMail, username |-> <<"A","l","i">>, password |-> Secret1a],
      [email |-> BobMail, username |-> AliMail, password |-> Passw0rd,
       is_superuser |-> TRUE, is_verified |-> TRUE],
      [email |-> BobMail, username |-> <<"a","!","b">>, password |-> Secret1a] }

IdentifierInputs == {AliMail, BobMail}
PasswordInputs == {Secret1a, Passw0rd}

UpdateInputs == { [is_superuser |-> TRUE], [is_superuser |-> FALSE] }

\* the acting user a lifecycle operation is called with
ActorInputs == {NoneId}

UserIds == 1..MaxUsers

\* FastAPI's answer to a body the request schema refuses
RequestValidationError == APIException(422, "Unprocessable Entity", "REQUEST_VALIDATION")

\* the tokens of a token response, as entries a client holds
Pair(result, access_claims, refresh_claims, t) ==
    IF result.ok
    THEN { Entry(result.value.access_token, "access", access_claims, NoLifetime, t),
           Entry(result.value.refresh_token, "refresh", refresh_claims, NoLifetime, t) }
    ELSE {}

\* what a client can send as bearer credentials
Credentials == { e.tok : e \in issued } \cup {NoToken}

\* one more request is served
Serve ==
    /\ nreq < MaxRequests
    /\ nreq' = nreq + 1

\* POST /auth/register: UserService.create without an acting user
Register ==
    /\ Serve
    /\ \E body \in RegisterInputs, salt \in SaltInputs :
           IF ~UserCreateSchemaAccepts(body)
           THEN /\ resp' = [op |-> "register", result |-> RequestValidationError]
                /\ UNCHANGED <<users, nextId, now, nticks, issued, pcLogin>>
           ELSE LET out == create(users, nextId, body, NoneId, salt)
                IN  /\ out.result.ok => nextId <= MaxUsers
                    /\ users' = out.tbl
                    /\ nextId' = IF out.result.ok THEN nextId + 1 ELSE nextId
                    /\ resp' = [op |-> "register", result |-> out.result]
                    /\ UNCHANGED <<now, nticks, issued, pcLogin>>
    /\ UNCHANGED <<session, calls>>

\* POST /auth/login, first half: the lookup, the password and is_active tests
LoginStart ==
    /\ Serve
    /\ /\ pcLogin = Idle
       /\ \E identifier \in IdentifierInputs, password \in PasswordInputs :
            \E user \in { users[id] : id \in MatchingRows(users, identifier) } \cup {NoRow} :
               /\ user = NoRow => MatchingRows(users, identifier) = {}
               /\ IF authenticate_check(user, password)
                  THEN /\ pcLogin' = [phase |-> "loaded", user |-> user,
                                      identifier |-> identifier, password |-> password]
                       /\ resp' = [op |-> "login_started"]
                  ELSE /\ pcLogin' = Idle
                       /\ resp' = [op |-> "login", identifier |-> identifier,
                                   password |-> password, auth |-> NoValue,
                                   result |-> login(NoValue, now)]
       /\ UNCHANGED <<users, nextId, now, nticks, issued>>
    /\ UNCHANGED <<session, calls>>

\* POST /auth/login, second half: update_last_login, the projection, the tokens
LoginFinish ==
    /\ pcLogin # Idle
    /\ LET out == authenticate_finish(users, pcLogin.user, now)
           result == login(out.result, now)
       IN  /\ users' = out.tbl
           /\ issued' = issued \cup Pair(result, AccessClaims(out.result),
                                         RefreshClaims(out.result), now)
           /\ Cardinality(issued') <= MaxTokens
           /\ resp' = [op |-> "login", identifier |-> pcLogin.identifier,
                       password |-> pcLogin.password, auth |-> out.result,
                       result |-> result]
    /\ pcLogin' = Idle
    /\ UNCHANGED <<nextId, now, nticks, nreq>>
    /\ UNCHANGED <<session, calls>>

\* POST /auth/refresh
Refresh ==
    /\ Serve
    /\ \E e \in issued :
           LET result == refresh_token(users, e.tok, now)
               user == get_by_id(users, ParseUuid(DictGet(e.tok.payload, "sub", NoneStr)))
           IN  /\ issued' = issued \cup
                      (IF result.ok
                       THEN Pair(result, AccessClaims(user), RefreshClaims(user), now)
                       ELSE {})
               /\ Cardinality(issued') <= MaxTokens
               /\ resp' = [op |-> "refresh_token", token |-> e.tok, result |-> result]
               /\ UNCHANGED <<users, nextId, now, nticks, pcLogin>>
    /\ UNCHANGED <<session, calls>>

\* GET /auth/me
GetCurrentUser ==
    /\ Serve
    /\ \E credentials \in Credentials :
           /\ resp' = [op |-> "get_current_user", token |-> credentials,
                       result |-> get_current_active_user(users, credentials, now)]
           /\ UNCHANGED <<users, nextId, now, nticks, issued, pcLogin>>
    /\ UNCHANGED <<session, calls>>

\* POST /auth/logout
Logout ==
    /\ Serve
    /\ \E credentials \in Credentials :
           LET current == get_current_active_user(users, credentials, now)
           IN  IF ~current.ok
               THEN /\ resp' = [op |-> "logout", token |-> credentials, called |-> FALSE,
                                result |-> current]
                    /\ UNCHANGED <<users, nextId, now, nticks, issued, pcLogin>>
               ELSE LET out == logout(users, current.value.id)
                    IN  /\ users' = out.tbl
                        /\ resp' = [op |-> "logout", token |-> credentials, called |-> TRUE,
                                    result |-> out.result]
                        /\ UNCHANGED <<nextId, now, nticks, issued, pcLogin>>
    /\ UNCHANGED <<session, calls>>

\* UserService.update with a UserUpdateSchema
Update ==
    /\ Serve
    /\ \E id \in UserIds, data \in UpdateInputs, actor \in ActorInputs :
           LET out == update(users, id, data, actor)
           IN  /\ users' = out.tbl
               /\ resp' = [op |-> "update", id |-> id, result |-> out.result]
               /\ UNCHANGED <<nextId, now, nticks, issued, pcLogin>>
    /\ UNCHANGED <<session, calls>>

\* UserService.soft_delete
SoftDelete ==
    /\ Serve
    /\ \E id \in UserIds, actor \in ActorInputs :
           LET out == soft_delete(users, id, actor)
           IN  /\ users' = out.tbl
               /\ resp' = [op |-> "soft_delete", id |-> id, result |-> out.result]
               /\ UNCHANGED <<nextId, now, nticks, issued, pcLogin>>
    /\ UNCHANGED <<session, calls>>

\* UserService.restore
Restore ==
    /\ Serve
    /\ \E id \in UserIds, actor \in ActorInputs :
           LET out == restore(users, id, actor)
           IN  /\ users' = out.tbl
               /\ resp' = [op |-> "restore", id |-> id, result |-> out.result]
               /\ UNCHANGED <<nextId, now, nticks, issued, pcLogin>>
    /\ UNCHANGED <<session, calls>>

\* UserService.delete
Delete ==
    /\ Serve
    /\ \E id \in UserIds :
           LET out == delete(users, id)
           IN  /\ users' = out.tbl
               /\ resp' = [op |-> "delete", id |-> id, result |-> out.result]
               /\ UNCHANGED <<nextId, now, nticks, issued, pcLogin>>
    /\ UNCHANGED <<session, calls>>

Next ==
    \/ Register
    \/ LoginStart
    \/ LoginFinish
    \/ Refresh
    \/ GetCurrentUser
    \/ Logout
    \/ Update
    \/ SoftDelete
    \/ Restore
    \/ Delete
    \/ Tick

Spec == Init /\ [][Next]_vars

----------------------------------------------------------------------------
(* SpecUsers: the UserService operations called one after another on the   *)
(* users table, each with or without an acting user.                       *)

CreateInputs ==
    { [email |-> AliMail, username |-> <<"A","l","i">>, password |-> Secret1a],
      [email |-> BobMail, username |-> <<"A","L","I">>, password |-> Passw0rd],
      [email |-> AliMail, username |-> Bob, password |-> Passw0rd],
      [email |-> BobMail, username |-> Bob, password |-> Passw0rd,
       is_superuser |-> TRUE] }

\* the acting user of a call: none, or the user with the first id
Actors == {NoneId, 1}

UCreate ==
    /\ Serve
    /\ \E obj_in \in CreateInputs, actor \in Actors, salt \in SaltInputs :
           LET out == create(users, nextId, obj_in, actor, salt)
           IN  /\ out.result.ok => nextId <= MaxUsers
               /\ users' = out.tbl
               /\ nextId' = IF out.result.ok THEN nextId + 1 ELSE nextId
               /\ resp' = [op |-> "create", obj_in |-> obj_in, actor |-> actor,
                           result |-> out.result]
    /\ UNCHANGED <<now, nticks, issued, pcLogin>>
    /\ UNCHANGED <<session, calls>>

UUpdate ==
    /\ Serve
    /\ \E id \in UserIds, obj_in \in UpdateInputs, actor \in Actors :
           LET out == update(users, id, obj_in, actor)
           IN  /\ users' = out.tbl
               /\ resp' = [op |-> "update", id |-> id, obj_in |-> obj_in,
                           actor |-> actor, result |-> out.result]
    /\ UNCHANGED <<nextId, now, nticks, issued, pcLogin>>
    /\ UNCHANGED <<session, calls>>

USoftDelete ==
    /\ Serve
    /\ \E id \in UserIds, actor \in Actors :
           LET out == soft_delete(users, id, actor)
           IN  /\ users' = out.tbl
               /\ resp' = [op |-> "soft_delete", id |-> id, actor |-> actor,
                           result |-> out.result]
    /\ UNCHANGED <<nextId, now, nticks, issued, pcLogin>>
    /\ UNCHANGED <<session, calls>>

URestore ==
    /\ Serve
    /\ \E id \in UserIds, actor \in Actors :
           LET out == restore(users, id, actor)
           IN  /\ users' = out.tbl
               /\ resp' = [op |-> "restore", id |-> id, actor |-> actor,
                           result |-> out.result]
    /\ UNCHANGED <<nextId, now, nticks, issued, pcLogin>>
    /\ UNCHANGED <<session, calls>>

UChangePassword ==
    /\ Serve
    /\ \E id \in UserIds, current \in PasswordInputs, new \in PasswordInputs,
          salt \in SaltInputs :
           LET out == change_password(users, id, current, new, salt)
           IN  /\ users' = out.tbl
               /\ resp' = [op |-> "change_password", id |-> id,
                           current_password |-> current, new_password |-> new,
                           result |-> out.result]
    /\ UNCHANGED <<nextId, now, nticks, issued, pcLogin>>
    /\ UNCHANGED <<session, calls>>

NextUsers ==
    \/ UCreate
    \/ UUpdate
    \/ USoftDelete
    \/ URestore
    \/ UChangePassword

SpecUsers == Init /\ [][NextUsers]_vars

----------------------------------------------------------------------------
(* SpecList: one query against a table of users created beforehand.        *)
(* get_multi and GET /users read the table and change nothing, so a        *)
(* behaviour is a seeded table followed by one query.                      *)

\* the i-th user created for the seeded table
SeedBody(i) ==
    IF i = 1 THEN [email |-> AliMail, username |-> <<"A","l","i">>, password |-> Secret1a]
    ELSE IF i = 2 THEN [email |-> BobMail, username |-> Bob, password |-> Passw0rd,
                        is_superuser |-> TRUE]
    ELSE [email |-> <<DigitChars[i + 1], "@", "c", ".", "i", "o">>,
          username |-> <<"u", "_", DigitChars[i + 1]>>, password |-> Passw0rd]

\* the table after the first n of them were created
RECURSIVE Seed(_)
Seed(n) ==
    IF n = 0 THEN << >>
    ELSE create(Seed(n - 1), n, SeedBody(n), NoneId, "salt1").tbl

SkipInputs == {-1, 0, 1, 2, 3}
LimitInputs == {0, 1, 2, 100, 101}

FilterInputs ==
    { << >>,
      [username |-> Ali],
      [username |-> Ali, nickname |-> Ali, email |-> NoneStr] }

SearchInputs ==
    { << >>,
      [email |-> <<"o">>],
      [email |-> <<"o">>, username |-> <<"o">>],
      [username |-> <<"L">>, nickname |-> <<"z">>, email |-> NoneStr] }

\* the search query parameter of GET /users; NoneStr when it is not sent
TermInputs == {NoneStr, <<"o">>, <<"B">>, <<"_">>, <<"z">>}

InitList ==
    /\ users \in { Seed(n) : n \in 0..MaxUsers }
    /\ nextId = Cardinality(DOMAIN users) + 1
    /\ now = 0
    /\ nticks = 0
    /\ nreq = 0
    /\ issued = {}
    /\ pcLogin = Idle
    /\ resp = NoResp
    /\ session = NoSession
    /\ calls = NoCalls

\* the one query of a behaviour
Query ==
    /\ nreq = 0
    /\ nreq' = 1
    /\ UNCHANGED <<users, nextId, now, nticks, issued, pcLogin>>
    /\ UNCHANGED <<session, calls>>

\* PaginationRequestSchema: offset ge=0, limit ge=1 le=100
PaginationRequestSchemaAccepts(offset, limit) == offset >= 0 /\ limit >= 1 /\ limit <= 100

\* the search dict get_users builds from the search parameter
SearchParams(term) ==
    IF term = NoneStr THEN << >> ELSE [email |-> term, username |-> term]

\* get_users, the handler of GET /users, for a caller that passed the
\* superuser dependency
get_users(tbl, order, offset, limit, term) ==
    IF ~PaginationRequestSchemaAccepts(offset, limit) THEN RequestValidationError
    ELSE get_multi(tbl, order, offset, limit, << >>, SearchParams(term), TRUE)

\* BaseService.get_multi called directly
ListGetMulti ==
    /\ Query
    /\ \E skip \in SkipInputs, limit \in LimitInputs, filters \in FilterInputs,
          search \in SearchInputs, include_count \in BOOLEAN :
         \E order \in Orders(Selected(users, filters, search)) :
            resp' = [op |-> "get_multi", skip |-> skip, limit |-> limit,
                     filters |-> filters, search |-> search,
                     include_count |-> include_count,
                     result |-> get_multi(users, order, skip, limit, filters, search,
                                          include_count)]

\* GET /users
ListUsers ==
    /\ Query
    /\ \E offset \in SkipInputs, limit \in LimitInputs, term \in TermInputs :
         \E order \in Orders(Selected(users, << >>, SearchParams(term))) :
            resp' = [op |-> "get_users", offset |-> offset, limit |-> limit,
                     term |-> term,
                     result |-> get_users(users, order, offset, limit, term)]

NextList == ListGetMulti \/ ListUsers

SpecList == InitList /\ [][NextList]_vars

----------------------------------------------------------------------------
(* SpecHttp: the requests a client can send, against a table of users that *)
(* registered beforehand.  SpecAdmin adds UserService.delete, which no      *)
(* route calls, so that a token can outlive its user's record.              *)

ForbiddenError == APIException(403, "Not enough permissions", "FORBIDDEN")
UserNotFound404Error == APIException(404, "User not found", "USER_NOT_FOUND")
BadRequestError == APIException(400, "Failed to change password", "BAD_REQUEST")

\* update_user and delete_user: "if not updated_user: raise APIException(404)",
\* and no body in the 204 answer
or_not_found(result) ==
    IF result = Ok(NoValue) THEN UserNotFound404Error
    ELSE IF result.ok THEN Ok(NoValue)
    ELSE result

\* the superuser dependency without its is_superuser test
get_current_superuser_AnyActive(tbl, credentials, t) ==
    get_current_active_user(tbl, credentials, t)

\* the superuser dependency deciding on the is_superuser claim of the token
get_current_superuser_TokenFlag(tbl, credentials, t) ==
    LET current == get_current_active_user(tbl, credentials, t)
    IN  IF ~current.ok THEN current
        ELSE IF ~DictGet(credentials.payload, "is_superuser", FALSE) THEN ForbiddenError
        ELSE current

\* dependencies.get_current_superuser
get_current_superuser(tbl, credentials, t) ==
    LET current == get_current_active_user(tbl, credentials, t)
    IN  IF ~current.ok THEN current
        ELSE IF ~current.value.is_superuser THEN ForbiddenError
        ELSE current

\* POST /users
PostUsers ==
    /\ Serve
    /\ \E credentials \in Credentials, body \in CreateInputs, salt \in SaltInputs :
         \E current \in {get_current_superuser(users, credentials, now)} :
         \E out \in {IF ~current.ok THEN Outcome(users, current)
                     ELSE IF ~UserCreateSchemaAccepts(body)
                     THEN Outcome(users, RequestValidationError)
                     ELSE create(users, nextId, body, current.value.id, salt)} :
            /\ out.result.ok => nextId <= MaxUsers
            /\ users' = out.tbl
            /\ nextId' = IF out.result.ok THEN nextId + 1 ELSE nextId
            /\ resp' = [op |-> "post_users", token |-> credentials, result |-> out.result]
    /\ UNCHANGED <<now, nticks, issued, pcLogin>>
    /\ UNCHANGED <<session, calls>>

\* GET /users
GetUsers ==
    /\ Serve
    /\ \E credentials \in Credentials, limit \in {1, 100}, term \in {NoneStr, <<"o">>} :
         \E order \in Orders(Selected(users, << >>, SearchParams(term))) :
         \E current \in {get_current_superuser(users, credentials, now)} :
            resp' = [op |-> "get_users", token |-> credentials,
                     offset |-> 0, limit |-> limit, term |-> term,
                     result |-> IF ~current.ok THEN current
                                ELSE get_users(users, order, 0, limit, term)]
    /\ UNCHANGED <<users, nextId, now, nticks, issued, pcLogin>>
    /\ UNCHANGED <<session, calls>>

\* GET /users/{user_id}
GetUser ==
    /\ Serve
    /\ \E credentials \in Credentials, id \in UserIds :
         \E current \in {get_current_superuser(users, credentials, now)} :
         \E user \in {get_by_id(users, id)} :
            resp' = [op |-> "get_user_by_id", token |-> credentials, id |-> id,
                     result |-> IF ~current.ok THEN current
                                ELSE IF user = NoValue THEN UserNotFound404Error
                                ELSE Ok(user)]
    /\ UNCHANGED <<users, nextId, now, nticks, issued, pcLogin>>
    /\ UNCHANGED <<session, calls>>

\* PUT /users/{user_id}
PutUser ==
    /\ Serve
    /\ \E credentials \in Credentials, id \in UserIds, data \in UpdateInputs :
         \E current \in {get_current_superuser(users, credentials, now)} :
         \E out \in {IF ~current.ok THEN Outcome(users, current)
                     ELSE update(users, id, data, current.value.id)} :
            /\ users' = out.tbl
            /\ resp' = [op |-> "update_user", token |-> credentials, id |-> id,
                        result |-> or_not_found(out.result)]
    /\ UNCHANGED <<nextId, now, nticks, issued, pcLogin>>
    /\ UNCHANGED <<session, calls>>

\* DELETE /users/{user_id}
DeleteUser ==
    /\ Serve
    /\ \E credentials \in Credentials, id \in UserIds :
         \E current \in {get_current_superuser(users, credentials, now)} :
         \E out \in {IF ~current.ok THEN Outcome(users, current)
                     ELSE soft_delete(users, id, current.value.id)} :
            /\ users' = out.tbl
            /\ resp' = [op |-> "delete_user", token |-> credentials, id |-> id,
                        result |-> or_not_found(out.result)]
    /\ UNCHANGED <<nextId, now, nticks, issued, pcLogin>>
    /\ UNCHANGED <<session, calls>>

\* POST /auth/change-password
ChangePassword ==
    /\ Serve
    /\ \E credentials \in Credentials, current_password \in PasswordInputs,
          new_password \in PasswordInputs, salt \in SaltInputs :
         \E current \in {get_current_active_user(users, credentials, now)} :
         \E out \in {IF ~current.ok THEN Outcome(users, current)
                     ELSE IF ~validate_password(new_password)
                     THEN Outcome(users, RequestValidationError)
                     ELSE change_password(users, current.value.id, current_password,
                                          new_password, salt)} :
            /\ users' = out.tbl
            /\ resp' = [op |-> "change_current_user_password", token |-> credentials,
                        result |-> IF out.result = Ok(FALSE) THEN BadRequestError
                                   ELSE out.result]
    /\ UNCHANGED <<nextId, now, nticks, issued, pcLogin>>
    /\ UNCHANGED <<session, calls>>

NextHttp ==
    \/ Register
    \/ LoginStart
    \/ LoginFinish
    \/ Refresh
    \/ ChangePassword
    \/ PostUsers
    \/ GetUsers
    \/ GetUser
    \/ PutUser
    \/ DeleteUser

SpecHttp == InitList /\ [][NextHttp]_vars

NextAdmin == NextHttp \/ Delete

SpecAdmin == InitList /\ [][NextAdmin]_vars

----------------------------------------------------------------------------
(* SpecVerify: verify_password alone, applied to a password and a value of  *)
(* the hashed_password column: a digest hash_password wrote, a truncated    *)
(* one, or a string that is no digest (a password stored as it is).         *)

PlainInputs == {Secret1a, Passw0rd, Ali, Bob, AliMail}

DigestInputs ==
    { hash_password(p, salt) : p \in PlainInputs, salt \in {"salt1", "salt2"} }
    \cup { [scheme |-> "bcrypt_malformed", salt |-> "salt1", digest |-> <<"salt1">>] }
    \cup { [scheme |-> "unknown", salt |-> "", digest |-> <<"", p>>] : p \in PlainInputs }

InitVerify ==
    /\ users = << >>
    /\ nextId = 1
    /\ now = 0
    /\ nticks = 0
    /\ nreq = 0
    /\ issued = {}
    /\ pcLogin = Idle
    /\ resp \in { [op |-> "input", plain_password |-> p, hashed_password |-> h] :
                    p \in PlainInputs, h \in DigestInputs }
    /\ session = NoSession
    /\ calls = NoCalls

VerifyPassword ==
    /\ resp.op = "input"
    /\ resp' = [op |-> "verify_password", plain_password |-> resp.plain_password,
                hashed_password |-> resp.hashed_password,
                result |-> verify_password_call(resp.plain_password, resp.hashed_password)]
    /\ UNCHANGED <<users, nextId, now, nticks, nreq, issued, pcLogin>>
    /\ UNCHANGED <<session, calls>>

SpecVerify == InitVerify /\ [][VerifyPassword]_vars

----------------------------------------------------------------------------
(* SpecSession: the database session scopes.  A request handler runs       *)
(* between the yield of get_db and its resumption, a task body between the  *)
(* yield of get_db_context and its resumption; either may write through the *)
(* session and either may end by returning or by raising.                   *)

\* what the code between the yield and its resumption raised: nothing, a
\* SQLAlchemyError, or another Exception
ErrorInputs == {"", "SQLAlchemyError", "Exception"}

\* get_db from the resumption after its yield: the except clauses and finally
get_db_NoFinally(error) ==
    IF error = "SQLAlchemyError" THEN <<"rollback">>
    ELSE IF error = "Exception" THEN <<"rollback">>
    ELSE <<"close">>

get_db(error) ==
    IF error = "SQLAlchemyError" THEN <<"rollback", "close">>
    ELSE IF error = "Exception" THEN <<"rollback", "close">>
    ELSE <<"close">>

\* get_db_context from the resumption after its yield: db.commit(), which may
\* raise itself, the except clause and finally
get_db_context(error, commit_raises) ==
    IF error # "" THEN <<"rollback", "close">>
    ELSE IF commit_raises THEN <<"commit_raised", "rollback", "close">>
    ELSE <<"commit", "close">>

\* db = SessionLocal() and the yield of get_db, for a request
GetDbOpen ==
    /\ Serve
    /\ session.pc # "body"
    /\ session' = [pc |-> "body", kind |-> "request", events |-> <<"open">>,
                   writes |-> 0, error |-> ""]
    /\ UNCHANGED <<users, nextId, now, nticks, issued, pcLogin, calls, resp>>

\* BaseTaskWithDatabaseContext.__call__ entering get_db_context
GetDbContextOpen ==
    /\ Serve
    /\ session.pc # "body"
    /\ session' = [pc |-> "body", kind |-> "task", events |-> <<"open">>,
                   writes |-> 0, error |-> ""]
    /\ UNCHANGED <<users, nextId, now, nticks, issued, pcLogin, calls, resp>>

\* the handler or the task body writes through the session
BodyWrite ==
    /\ session.pc = "body"
    /\ session.writes < MaxWrites
    /\ session' = [session EXCEPT !.writes = @ + 1]
    /\ UNCHANGED <<users, nextId, now, nticks, nreq, issued, pcLogin, calls, resp>>

\* the handler returns or raises and get_db resumes
GetDbExit ==
    /\ session.pc = "body"
    /\ session.kind = "request"
    /\ \E error \in ErrorInputs :
         session' = [session EXCEPT !.pc = "done", !.error = error,
                                    !.events = @ \o get_db(error)]
    /\ UNCHANGED <<users, nextId, now, nticks, nreq, issued, pcLogin, calls, resp>>

\* the task body returns or raises and get_db_context resumes; __call__
\* re-raises what comes out of it
GetDbContextExit ==
    /\ session.pc = "body"
    /\ session.kind = "task"
    /\ \E error \in ErrorInputs, commit_raises \in BOOLEAN :
         session' = [session EXCEPT !.pc = "done", !.error = error,
                                    !.events = @ \o get_db_context(error, commit_raises)]
    /\ UNCHANGED <<users, nextId, now, nticks, nreq, issued, pcLogin, calls, resp>>

NextSession ==
    \/ GetDbOpen
    \/ GetDbContextOpen
    \/ BodyWrite
    \/ GetDbExit
    \/ GetDbContextExit

SpecSession == Init /\ [][NextSession]_vars

----------------------------------------------------------------------------
(* SpecCalls: the lifecycle operations of UserService step by step.  Each  *)
(* call touches the table twice: when it loads the entity or validates the  *)
(* payload, and when it writes.  Other calls may run between the two, so    *)
(* the write may meet a table that differs from the one that was validated. *)
(* A call in flight records the hooks and store writes it has done.         *)

\* a call that answers an absent id by raising
until_write_RaisesOnAbsent(tbl, op, id, obj_in, current_user_id, salt) ==
    [op |-> op, id |-> id, data |-> << >>, existing |-> RepoGet(tbl, id),
     pc |-> "done", events |-> << >>, result |-> UserNotFound404Error]

\* a call from its entry up to its store write: the payload, the load of the
\* existing entity (update, delete, soft_delete, restore) and the validate hook
until_write(tbl, op, id, obj_in, current_user_id, salt) ==
    LET existing == RepoGet(tbl, id)
        dumped == UserCreateSchemaDump(obj_in)
        data == IF op = "create"
                THEN DictUpdate(DictUpdate(WithoutPassword(dumped),
                         [hashed_password |-> hash_password(dumped.password, salt)]),
                         AuditCreate(current_user_id))
                ELSE IF op = "update" THEN DictUpdate(obj_in, AuditUpdate(current_user_id))
                ELSE IF op = "soft_delete"
                THEN DictUpdate([is_active |-> FALSE], AuditUpdate(current_user_id))
                ELSE IF op = "restore"
                THEN DictUpdate([is_active |-> TRUE], AuditUpdate(current_user_id))
                ELSE << >>
        valid == IF op = "create" THEN validate_create(tbl, data)
                 ELSE IF op = "update" THEN validate_update(tbl, id, data)
                 ELSE Ok(NoValue)
        call == [op |-> op, id |-> id, data |-> data, existing |-> existing]
    IN  IF op # "create" /\ existing = NoRow
        THEN call @@ [pc |-> "done", events |-> << >>,
                      result |-> IF op = "delete" THEN Ok(FALSE) ELSE Ok(NoValue)]
        ELSE IF ~valid.ok
        THEN call @@ [pc |-> "done", events |-> <<"validate">>, result |-> valid]
        ELSE call @@ [pc |-> "write", events |-> <<"validate">>, result |-> Ok(NoValue)]

\* a call that runs its post hook without having written
from_write_PostWithoutWrite(tbl, id, call) ==
    [tbl |-> tbl,
     call |-> [call EXCEPT !.pc = "done", !.events = @ \o <<"post">>]]

\* an update that writes the row back when it is gone
from_write_Upsert(tbl, id, call) ==
    IF call.op = "create"
    THEN [tbl |-> tbl,
          call |-> [call EXCEPT !.pc = "done", !.events = @ \o <<"write_raised">>,
                                !.result = UnstructuredError]]
    ELSE IF call.op = "delete"
    THEN [tbl |-> RepoDelete(tbl, call.id),
          call |-> [call EXCEPT !.pc = "done", !.events = @ \o <<"write", "post">>,
                                !.result = Ok(call.id \in DOMAIN tbl)]]
    ELSE [tbl |-> [i \in DOMAIN tbl \cup {call.id} |->
                     IF i = call.id THEN DictUpdate(call.existing, call.data)
                     ELSE tbl[i]],
          call |-> [call EXCEPT !.pc = "done", !.events = @ \o <<"write", "post">>]]

\* a call from its store write on: repository.create / update / delete, the
\* post hook when the write took place, and the projection. id is the primary
\* key a created row gets. The users table has unique indexes on email and
\* username; an INSERT they refuse raises IntegrityError out of commit().
from_write(tbl, id, call) ==
    IF call.op = "create"
    THEN IF \/ is_email_taken(tbl, call.data.email, NoneId)
            \/ is_username_taken(tbl, call.data.username, NoneId)
         THEN [tbl |-> tbl,
               call |-> [call EXCEPT !.pc = "done", !.events = @ \o <<"write_raised">>,
                                     !.result = UnstructuredError]]
         ELSE [tbl |-> RepoCreate(tbl, id, call.data),
               call |-> [call EXCEPT !.pc = "done", !.events = @ \o <<"write", "post">>,
                            !.result = Ok(UserResponseSchema(
                                             RepoCreate(tbl, id, call.data)[id]))]]
    ELSE IF call.id \notin DOMAIN tbl
    THEN [tbl |-> tbl,
          call |-> [call EXCEPT !.pc = "done",
                       !.result = IF call.op = "delete" THEN Ok(FALSE) ELSE Ok(NoValue)]]
    ELSE IF call.op = "delete"
    THEN [tbl |-> RepoDelete(tbl, call.id),
          call |-> [call EXCEPT !.pc = "done", !.events = @ \o <<"write", "post">>,
                                !.result = Ok(TRUE)]]
    ELSE [tbl |-> RepoUpdate(tbl, call.id, call.data),
          call |-> [call EXCEPT !.pc = "done", !.events = @ \o <<"write", "post">>,
                       !.result = Ok(UserResponseSchema(
                                        RepoUpdate(tbl, call.id, call.data)[call.id]))]]

\* the calls a client of the service makes
CallInputs ==
    { [op |-> "create", id |-> NoneId, obj_in |-> body] : body \in CreateInputs }
    \cup { [op |-> "update", id |-> id, obj_in |-> data] :
             id \in UserIds, data \in UpdateInputs }
    \cup { [op |-> op, id |-> id, obj_in |-> << >>] :
             op \in {"delete", "soft_delete", "restore"}, id \in UserIds }

\* a call runs up to its store write, or ends before it
CallStart ==
    /\ Serve
    /\ Len(calls) < MaxCalls
    /\ \E in \in CallInputs, actor \in ActorInputs, salt \in SaltInputs :
         \E call \in {until_write(users, in.op, in.id, in.obj_in, actor, salt)} :
            IF call.pc = "done"
            THEN calls' = calls /\ resp' = call
            ELSE calls' = Append(calls, call) /\ resp' = [op |-> "suspended"]
    /\ UNCHANGED <<users, nextId, now, nticks, issued, pcLogin, session>>

\* a call in flight writes and returns
CallWrite ==
    /\ \E i \in DOMAIN calls :
         \E out \in {from_write(users, nextId, calls[i])} :
            /\ (calls[i].op = "create" /\ out.call.result.ok) => nextId <= MaxUsers
            /\ users' = out.tbl
            /\ nextId' = IF calls[i].op = "create" /\ out.call.result.ok
                         THEN nextId + 1 ELSE nextId
            /\ calls' = [j \in 1..(Len(calls) - 1) |->
                            IF j < i THEN calls[j] ELSE calls[j + 1]]
            /\ resp' = out.call
    /\ UNCHANGED <<now, nticks, nreq, issued, pcLogin, session>>

NextCalls == CallStart \/ CallWrite

SpecCalls == InitList /\ [][NextCalls]_vars

----------------------------------------------------------------------------
(* Properties of the token codec, checked under SpecToken *)

OtherKind(kind) == IF kind = "access" THEN "refresh" ELSE "access"

\* the token's own expiry instant has been reached
Expired(tok, t) == tok.payload.exp * TicksPerSecond <= t

HasFullClaims(data) ==
    /\ {"sub", "username", "email", "is_superuser", "is_verified"} \subseteq DOMAIN data
    /\ \E id \in 1..MaxUsers : data.sub = UuidStr(id)

\* C1 as stated: every token produced by create_refresh_token fails
\* verify_token(.., "access") with the kind-mismatch error (401, no TokenData),
\* an error that is not the malformed-token error; and vice versa.
C1_KindMismatchAlways ==
    \A e \in issued :
        (e.life = NoLifetime \/ e.life >= 0) =>
        LET r == verify_token(e.tok, OtherKind(e.kind), now)
        IN  /\ ~r.ok
            /\ r.status = 401
            /\ r.value = NoValue
            /\ r = TokenTypeError
            /\ r # TokenMalformedError

\* C1 as amended: verified as the other kind, a token always fails with
\* status 401 and no TokenData; while it is unexpired the error is code
\* INVALID_TOKEN with message "Invalid token type" (the code of the
\* malformed-token error, which differs from it in the message only), and
\* once it has expired the error is TOKEN_EXPIRED.
C1_KindIsolation ==
    \A e \in issued :
        LET r == verify_token(e.tok, OtherKind(e.kind), now)
            m == verify_token([e.tok EXCEPT !.sig = Sign(e.tok.payload, OtherKey)],
                              OtherKind(e.kind), now)
        IN  /\ ~r.ok
            /\ r.status = 401
            /\ r.value = NoValue
            /\ ~Expired(e.tok, now) =>
                   /\ r.code = "INVALID_TOKEN"
                   /\ r.message = "Invalid token type"
                   /\ m.code = r.code
                   /\ m.message # r.message
            /\ Expired(e.tok, now) => r.code = "TOKEN_EXPIRED"

\* an unexpired refresh token was presented as an access token and refused
C1_Witness ==
    /\ resp.op = "verify_token"
    /\ resp.token_type = "access"
    /\ \E e \in issued :
          /\ e.kind = "refresh"
          /\ e.tok = resp.token
          /\ ~Expired(e.tok, now)
    /\ resp.result = TokenTypeError

\* C2: a token issued with a lifetime L passed as expires_delta (L = 0
\* included) fails verification with TOKEN_EXPIRED (401) at any time later
\* than issue time + L.
C2_ExpiresAfterLifetime ==
    \A e \in issued :
        (HasFullClaims(e.data) /\ e.life # NoLifetime /\ now > e.at + e.life) =>
            LET r == verify_token(e.tok, e.kind, now)
            IN  ~r.ok /\ r.status = 401 /\ r.code = "TOKEN_EXPIRED"

\* C3: verifying an unexpired token, issued from claims (subject, username,
\* email, is_superuser, is_verified) with any lifetime, as its own kind
\* returns TokenData whose fields are the issued claims.
C3_RoundTrip ==
    \A e \in issued :
        (HasFullClaims(e.data) /\ ~Expired(e.tok, now)) =>
            LET r == verify_token(e.tok, e.kind, now)
            IN  /\ r.ok
                /\ UuidStr(r.value.user_id) = e.data.sub
                /\ r.value.username = e.data.username
                /\ r.value.email = e.data.email
                /\ r.value.is_superuser = e.data.is_superuser
                /\ r.value.is_verified = e.data.is_verified

\* a token with full claims was verified as its own kind after the clock moved
C3_Witness ==
    /\ resp.op = "verify_token"
    /\ resp.result.ok
    /\ now > 0
    /\ \E e \in issued :
          /\ e.tok = resp.token
          /\ e.kind = resp.token_type
          /\ HasFullClaims(e.data)
          /\ e.at < now
          /\ resp.result.value.is_verified

----------------------------------------------------------------------------
(* Properties of the session subsystem, checked under Spec *)

\* the stored active users whose email or username is the identifier and
\* whose password is the given one
Holders(tbl, identifier, password) ==
    { id \in DOMAIN tbl :
        /\ tbl[id].is_active
        /\ tbl[id].email = identifier \/ tbl[id].username = identifier
        /\ verify_password(password, tbl[id].hashed_password) }

\* the subject of a token that was issued to a user
Subject(tok) == ParseUuid(tok.payload.sub)

\* the TokenData that mirrors every claim of a user projection
Mirror(user) ==
    TokenData(user.id, user.username, user.email, user.is_superuser, user.is_verified)

\* the TokenData of a token that carries a subject and nothing else
SubjectOnly(id) == TokenData(id, NoneStr, NoneStr, FALSE, FALSE)

\* the token is accepted by the operation of its kind
Accepted(tbl, e, t) ==
    IF e.kind = "access" THEN get_current_user(tbl, e.tok, t).ok
    ELSE refresh_token(tbl, e.tok, t).ok

\* C4 as stated: authenticate returns none only for an unknown identifier, a
\* wrong password or an inactive account, and then leaves every stored record
\* unchanged; for correct credentials on an active user it sets that user's
\* last_login to the current time and returns that user's projection.
C4_Authenticate ==
    [][ resp'.op = "login" =>
          /\ resp'.auth = NoValue =>
                /\ users' = users
                /\ Holders(users, resp'.identifier, resp'.password) = {}
          /\ (resp'.auth # NoValue /\ resp'.auth.id \in DOMAIN users') =>
                /\ users'[resp'.auth.id].last_login = now'
                /\ resp'.auth = UserResponseSchema(users'[resp'.auth.id]) ]_vars

\* C5: a login whose authenticate returned none fails with
\* INVALID_CREDENTIALS and status 401, a login whose authenticated record is
\* inactive fails with USER_NOT_ACTIVE and status 401, and a failed login
\* issues no token.
C5_LoginFailures ==
    [][ resp'.op = "login" =>
          /\ resp'.auth = NoValue =>
                /\ ~resp'.result.ok
                /\ resp'.result.status = 401
                /\ resp'.result.code = "INVALID_CREDENTIALS"
          /\ (resp'.auth # NoValue /\ ~resp'.auth.is_active) =>
                /\ ~resp'.result.ok
                /\ resp'.result.status = 401
                /\ resp'.result.code = "USER_NOT_ACTIVE"
          /\ ~resp'.result.ok => (issued' = issued /\ resp'.result.value = NoValue) ]_vars

\* a login that authenticated a record found inactive was refused
C5_Witness ==
    /\ resp.op = "login"
    /\ resp.auth # NoValue
    /\ ~resp.auth.is_active
    /\ resp.result.code = "USER_NOT_ACTIVE"

\* C6 as stated: after a successful login, verifying either token with its own
\* kind yields subject, username, email, is_superuser and is_verified of the
\* user record.
C6_BothTokensMirror ==
    (resp.op = "login" /\ resp.result.ok) =>
        /\ verify_token(resp.result.value.access_token, "access", now)
              = Ok(Mirror(resp.result.value.user))
        /\ verify_token(resp.result.value.refresh_token, "refresh", now)
              = Ok(Mirror(resp.result.value.user))

\* C6 amended: after a successful login the access token verifies to the
\* subject, username, email, is_superuser and is_verified of the user in the
\* response, which are those of the stored row when login completes; the
\* refresh token verifies to that subject with no username, no email and both
\* flags false.
C6_LoginClaims ==
    (resp.op = "login" /\ resp.result.ok) =>
        LET user == resp.result.value.user
        IN  /\ verify_token(resp.result.value.access_token, "access", now)
                  = Ok(Mirror(user))
            /\ verify_token(resp.result.value.refresh_token, "refresh", now)
                  = Ok(SubjectOnly(user.id))
            /\ user.id \in DOMAIN users =>
                  Mirror(user) = Mirror(UserResponseSchema(users[user.id]))

\* a superuser with a verified address has logged in
C6_Witness ==
    /\ resp.op = "login"
    /\ resp.result.ok
    /\ resp.result.value.user.is_superuser
    /\ resp.result.value.user.id \in DOMAIN users

\* C7: after a successful refresh the new access token verifies to the
\* subject of the presented token and to username, email, is_superuser and
\* is_verified of that user's row as stored at that time, and the new refresh
\* token verifies to the same subject.
C7_RefreshReloads ==
    (resp.op = "refresh_token" /\ resp.result.ok) =>
        LET id == Subject(resp.token)
            access == verify_token(resp.result.value.access_token, "access", now)
            refresh == verify_token(resp.result.value.refresh_token, "refresh", now)
        IN  /\ id \in DOMAIN users
            /\ access = Ok(Mirror(UserResponseSchema(users[id])))
            /\ refresh.ok
            /\ refresh.value.user_id = id

\* a refresh succeeded while the client still holds an access token of the
\* same user whose is_superuser claim is no longer the stored one
C7_Witness ==
    /\ resp.op = "refresh_token"
    /\ resp.result.ok
    /\ \E e \in issued :
          /\ e.kind = "access"
          /\ Subject(e.tok) = Subject(resp.token)
          /\ e.tok.payload.is_superuser # users[Subject(resp.token)].is_superuser

C10_AcceptedIffActive ==
    \A e \in issued :
        ~Expired(e.tok, now) =>
            LET id == Subject(e.tok)
                result == IF e.kind = "access"
                          THEN get_current_user(users, e.tok, now)
                          ELSE refresh_token(users, e.tok, now)
            IN  /\ result.ok <=> (id \in DOMAIN users /\ users[id].is_active)
                /\ id \notin DOMAIN users => result.code = "USER_NOT_FOUND"
                /\ (id \in DOMAIN users /\ ~users[id].is_active) =>
                      result.code = "USER_NOT_ACTIVE"

\* an unexpired access token was refused because its user is stored inactive
C10_Witness ==
    /\ resp.op = "get_current_user"
    /\ resp.result.code = "USER_NOT_ACTIVE"
    /\ \E e \in issued :
          /\ e.tok = resp.token
          /\ ~Expired(e.tok, now)
          /\ Subject(e.tok) \in DOMAIN users
          /\ ~users[Subject(e.tok)].is_active

----------------------------------------------------------------------------
(* Properties of the user directory, checked under SpecUsers *)

\* some stored user has this email / this username
EmailStored(tbl, email) == \E id \in DOMAIN tbl : tbl[id].email = email
UsernameStored(tbl, username) == \E id \in DOMAIN tbl : tbl[id].username = username

\* C11 as stated: a create whose email is that of a stored user fails with
\* DUPLICATE_EMAIL (400), a create whose lower-cased username is that of a
\* stored user fails with DUPLICATE_USERNAME (400), and neither stores a record.
C11_DuplicateRejected ==
    [][ resp'.op = "create" =>
          /\ EmailStored(users, NormalizeEmail(resp'.obj_in.email)) =>
                /\ resp'.result.status = 400
                /\ resp'.result.code = "DUPLICATE_EMAIL"
                /\ users' = users
          /\ UsernameStored(users, Lower(resp'.obj_in.username)) =>
                /\ resp'.result.status = 400
                /\ resp'.result.code = "DUPLICATE_USERNAME"
                /\ users' = users ]_vars

\* C11 amended: a create whose email is that of a stored user fails with
\* DUPLICATE_EMAIL (400), also when its username is taken too; a create whose
\* lower-cased username is that of a stored user and whose email is not
\* stored fails with DUPLICATE_USERNAME (400); neither stores a record.
C11_DuplicateCreate ==
    [][ resp'.op = "create" =>
          /\ EmailStored(users, NormalizeEmail(resp'.obj_in.email)) =>
                /\ resp'.result.status = 400
                /\ resp'.result.code = "DUPLICATE_EMAIL"
                /\ users' = users
          /\ (/\ UsernameStored(users, Lower(resp'.obj_in.username))
              /\ ~EmailStored(users, NormalizeEmail(resp'.obj_in.email))) =>
                /\ resp'.result.status = 400
                /\ resp'.result.code = "DUPLICATE_USERNAME"
                /\ users' = users ]_vars

\* a create was refused because its username, written in another case, is
\* the lower-case username of a stored user
C11_Witness ==
    /\ resp.op = "create"
    /\ resp.result.code = "DUPLICATE_USERNAME"
    /\ resp.obj_in.username # Lower(resp.obj_in.username)
    /\ UsernameStored(users, Lower(resp.obj_in.username))
    /\ ~UsernameStored(users, resp.obj_in.username)

\* C12: in every reachable state no two stored rows, active or not, have the
\* same email, and no two have the same username.
C12_Unique ==
    \A i \in DOMAIN users : \A j \in DOMAIN users :
        i # j => (users[i].email # users[j].email /\ users[i].username # users[j].username)

\* with two users stored, a create was refused for the email of a
\* soft-deleted user
C12_Witness ==
    /\ resp.op = "create"
    /\ resp.result.code = "DUPLICATE_EMAIL"
    /\ Cardinality(DOMAIN users) >= 2
    /\ \E id \in DOMAIN users :
          /\ users[id].email = NormalizeEmail(resp.obj_in.email)
          /\ ~users[id].is_active

\* the columns soft_delete and restore must leave alone
IdentityColumns == {"email", "username", "hashed_password", "is_superuser", "is_verified"}

\* C13: soft_delete of a stored id leaves the row stored with is_active false
\* and returns its projection; the same call repeated leaves the table as it
\* is and again returns an inactive projection, not none. restore of a stored
\* id leaves is_active true, whatever it was. Neither adds or removes a row
\* or changes email, username, password hash, is_superuser or is_verified.
C13_SoftDeleteRestore ==
    [][ (resp'.op \in {"soft_delete", "restore"} /\ resp'.id \in DOMAIN users) =>
          LET id == resp'.id
              again == soft_delete(users', id, resp'.actor)
          IN  /\ DOMAIN users' = DOMAIN users
              /\ users'[id].is_active = (resp'.op = "restore")
              /\ resp'.result = Ok(UserResponseSchema(users'[id]))
              /\ \A k \in IdentityColumns : users'[id][k] = users[id][k]
              /\ \A other \in DOMAIN users \ {id} : users'[other] = users[other]
              /\ resp'.op = "soft_delete" =>
                    /\ again.tbl = users'
                    /\ again.result.ok
                    /\ again.result.value # NoValue
                    /\ ~again.result.value.is_active ]_vars

\* a superuser was soft-deleted and is returned as an inactive superuser
C13_Witness ==
    /\ resp.op = "soft_delete"
    /\ resp.id \in DOMAIN users
    /\ ~users[resp.id].is_active
    /\ users[resp.id].is_superuser
    /\ resp.result.value.is_superuser
    /\ ~resp.result.value.is_active

\* C16: with an acting user, create stores created_by = updated_by = actor and
\* update, soft_delete and restore store updated_by = actor and leave
\* created_by alone; without one, a created record has both null and an
\* updated record keeps both previous values.
C16_AuditStamping ==
    [][ /\ (resp'.op = "create" /\ resp'.result.ok) =>
              /\ users'[nextId].created_by = resp'.actor
              /\ users'[nextId].updated_by = resp'.actor
        /\ (resp'.op \in {"update", "soft_delete", "restore"} /\ resp'.result.ok
               /\ resp'.id \in DOMAIN users) =>
              /\ users'[resp'.id].created_by = users[resp'.id].created_by
              /\ users'[resp'.id].updated_by =
                    (IF resp'.actor # NoneId THEN resp'.actor
                     ELSE users[resp'.id].updated_by) ]_vars

\* a record created without an actor, last written by user 1, has just been
\* restored without an actor and still names user 1
C16_Witness ==
    /\ resp.op = "restore"
    /\ resp.result.ok
    /\ resp.actor = NoneId
    /\ resp.id \in DOMAIN users
    /\ users[resp.id].created_by = NoneId
    /\ users[resp.id].updated_by = 1

----------------------------------------------------------------------------
(* Listing properties, checked under SpecList                              *)

Min(a, b) == IF a < b THEN a ELSE b
Max(a, b) == IF a > b THEN a ELSE b

\* the number of stored records a get_multi response's filters and search match
Matching == Cardinality(Selected(users, resp.filters, resp.search))

\* C14: a get_multi call that returns an envelope returns exactly
\* min(limit, max(0, N - skip)) items of the N matching records; its total is
\* N when the count was asked for and the number of items otherwise; and the
\* envelope has offset >= 0 and 1 <= limit <= 100.
C14_Pagination ==
    (resp.op = "get_multi" /\ resp.result.ok) =>
        LET page == resp.result.value
        IN  /\ Len(page.items) = Min(resp.limit, Max(0, Matching - resp.skip))
            /\ page.pagination.total =
                  (IF resp.include_count THEN Matching ELSE Len(page.items))
            /\ page.pagination.offset = resp.skip
            /\ page.pagination.limit = resp.limit
            /\ page.pagination.offset >= 0
            /\ page.pagination.limit >= 1
            /\ page.pagination.limit <= 100

\* the second of two matching records was asked for with the count: one item,
\* total two
C14_Witness ==
    /\ resp.op = "get_multi"
    /\ resp.result.ok
    /\ resp.skip = 1
    /\ resp.include_count
    /\ Matching = 2
    /\ Len(resp.result.value.items) = 1
    /\ resp.result.value.pagination.total = 2

\* v contains term, letters compared in either case
ContainsFold(v, term) ==
    \E i \in 0..(Len(v) - Len(term)) :
        \A j \in 1..Len(term) : LowerChar(v[i + j]) = LowerChar(term[j])

\* C15: GET /users with a search term returns only users whose email and
\* username both contain the term.
C15_SearchBothContain ==
    (resp.op = "get_users" /\ resp.result.ok /\ resp.term # NoneStr) =>
        \A i \in DOMAIN resp.result.value.items :
            /\ ContainsFold(resp.result.value.items[i].email, resp.term)
            /\ ContainsFold(resp.result.value.items[i].username, resp.term)

----------------------------------------------------------------------------
(* Properties of the /users routes, checked under SpecAdmin and SpecHttp   *)

UsersRoutes == {"post_users", "get_users", "get_user_by_id", "update_user", "delete_user"}

\* the bearer token is an access token that verifies now
VerifiedAccess(tok) == tok # NoToken /\ verify_token(tok, "access", now).ok

\* the bearer token resolves to a stored user that is active and a superuser
ActiveSuperuser(tok) ==
    /\ VerifiedAccess(tok)
    /\ Subject(tok) \in DOMAIN users
    /\ users[Subject(tok)].is_active
    /\ users[Subject(tok)].is_superuser

\* C17: a /users request without a token is answered 401 AccessTokenMissing,
\* one whose token names an absent or inactive user 401, one whose token names
\* an active non-superuser 403 Forbidden, each leaving the table unchanged; a
\* request that is answered otherwise, or that changes the table, came from an
\* active stored superuser.
C17_SuperuserOnly ==
    [][ resp'.op \in UsersRoutes =>
          LET tok == resp'.token
              result == resp'.result
          IN  /\ tok = NoToken =>
                    result = AccessTokenMissingError /\ users' = users
              /\ (VerifiedAccess(tok) /\ Subject(tok) \notin DOMAIN users) =>
                    result.status = 401 /\ users' = users
              /\ (/\ VerifiedAccess(tok)
                  /\ Subject(tok) \in DOMAIN users
                  /\ ~users[Subject(tok)].is_active) =>
                    result.status = 401 /\ users' = users
              /\ (/\ VerifiedAccess(tok)
                  /\ Subject(tok) \in DOMAIN users
                  /\ users[Subject(tok)].is_active
                  /\ ~users[Subject(tok)].is_superuser) =>
                    result = ForbiddenError /\ users' = users
              /\ (result.status \notin {401, 403} \/ users' # users) =>
                    ActiveSuperuser(tok) ]_vars

\* an active user who is not a superuser asked to delete a stored user and was
\* refused with 403
C17_Witness ==
    /\ resp.op = "delete_user"
    /\ resp.result = ForbiddenError
    /\ VerifiedAccess(resp.token)
    /\ users[Subject(resp.token)].is_active
    /\ resp.id \in DOMAIN users
    /\ users[resp.id].is_active

\* C18: no request removes a user record: the set of stored ids only grows, a
\* successful DELETE /users/{id} leaves the record stored with is_active
\* false, and GET /users/{id} by a superuser returns a soft-deleted user with
\* is_active false.
C18_NeverRemoved ==
    [][ /\ DOMAIN users \subseteq DOMAIN users'
        /\ (resp'.op = "delete_user" /\ resp'.result.ok) =>
              /\ resp'.id \in DOMAIN users'
              /\ ~users'[resp'.id].is_active
        /\ (/\ resp'.op = "get_user_by_id"
            /\ ActiveSuperuser(resp'.token)
            /\ resp'.id \in DOMAIN users
            /\ ~users[resp'.id].is_active) =>
              /\ resp'.result.ok
              /\ resp'.result.value.id = resp'.id
              /\ ~resp'.result.value.is_active ]_vars

\* a superuser fetched a user that had been soft-deleted
C18_Witness ==
    /\ resp.op = "get_user_by_id"
    /\ resp.result.ok
    /\ ~resp.result.value.is_active
    /\ resp.id \in DOMAIN users
    /\ users[resp.id].updated_by # NoneId

----------------------------------------------------------------------------
(* Username syntax, checked under Spec *)

\* lower-case letters, digits, underscore and hyphen
UsernameChars == Range(LowerChars) \cup Range(DigitChars) \cup {"_", "-"}

\* C19: every stored username is lower-case and consists only of letters,
\* digits, underscores and hyphens.
C19_UsernameSyntax ==
    \A id \in DOMAIN users : Range(users[id].username) \subseteq UsernameChars

----------------------------------------------------------------------------
(* Password verification, checked under SpecVerify *)

\* C20: verify_password returns, and does not raise, for any stored digest,
\* and it returns false for one that is malformed or unrecognised.
C20_VerifyNeverRaises ==
    resp.op = "verify_password" =>
        /\ resp.result.raised = ""
        /\ resp.hashed_password.scheme # "bcrypt" => ~resp.result.returned

----------------------------------------------------------------------------
(* Projections, checked under SpecUsers *)

\* C21: every user projection a UserService operation returns carries
\* display_name, equal to full_name when that is set and to username otherwise.
C21_DisplayName ==
    (/\ resp.op \in {"create", "update", "soft_delete", "restore"}
     /\ resp.result.ok
     /\ resp.result.value # NoValue) =>
        /\ "display_name" \in DOMAIN resp.result.value
        /\ resp.result.value.display_name =
              (IF resp.result.value.full_name # NoneStr
               THEN resp.result.value.full_name
               ELSE resp.result.value.username)

----------------------------------------------------------------------------
(* Session scopes, checked under SpecSession *)

\* the positions at which an event occurs in the scope's events
Positions(event) == { i \in DOMAIN session.events : session.events[i] = event }

----------------------------------------------------------------------------
(* Lifecycle calls, checked under SpecCalls *)

\* C23: update, delete, soft_delete and restore of an id that is not stored
\* return none (false for delete) without raising, run no validate hook, no
\* store write and no post hook, and leave the table unchanged; the /users
\* routes turn that none into UserNotFound, 404.
C23_AbsentIsValue ==
    [][ (/\ resp'.op \in {"update", "delete", "soft_delete", "restore"}
         /\ resp'.existing = NoRow) =>
           /\ resp'.result = (IF resp'.op = "delete" THEN Ok(FALSE) ELSE Ok(NoValue))
           /\ resp'.events = << >>
           /\ users' = users
           /\ resp'.op # "delete" =>
                 /\ or_not_found(resp'.result) = UserNotFound404Error
                 /\ UserNotFound404Error.status = 404 ]_vars

\* a soft delete of an id that the non-empty table does not hold returned none
C23_Witness ==
    /\ resp.op = "soft_delete"
    /\ resp.existing = NoRow
    /\ resp.result = Ok(NoValue)
    /\ users # << >>
    /\ resp.id \notin DOMAIN users

LifecycleOps == {"create", "update", "delete", "soft_delete", "restore"}

\* C24: a finished lifecycle call ran its validate hook before its store
\* write and its post hook only after a store write that took place; only a
\* call that wrote changed the table; and a call whose validate hook raised
\* left the table unchanged, ran no post hook and returned the structured
\* error of the hook.
C24_HookOrder ==
    [][ resp'.op \in LifecycleOps =>
          /\ resp'.events \in { << >>, <<"validate">>, <<"validate", "write", "post">>,
                                <<"validate", "write_raised">> }
          /\ users' # users => resp'.events = <<"validate", "write", "post">>
          /\ (resp'.events = <<"validate">> /\ ~resp'.result.ok) =>
                /\ users' = users
                /\ resp'.result.status = 400
                /\ resp'.result.code \in {"DUPLICATE_EMAIL", "DUPLICATE_USERNAME"} ]_vars

\* a create whose validate hook refused the username
C24_Witness ==
    /\ resp.op = "create"
    /\ resp.events = <<"validate">>
    /\ resp.result.code = "DUPLICATE_USERNAME"

----------------------------------------------------------------------------
(* Password handling, checked under SpecHttp *)

\* the record has no password and no password hash
Secretless(rec) == DOMAIN rec \cap {"password", "hashed_password"} = {}

\* the request bodies a stored row can have been created from
BodiesOf(row) ==
    { body \in RegisterInputs \cup CreateInputs \cup { SeedBody(i) : i \in 1..MaxUsers } :
        /\ UserCreateSchemaAccepts(body)
        /\ NormalizeEmail(body.email) = row.email
        /\ validate_username(body.username) = row.username }

\* C25: no stored row holds the plaintext password: it holds a bcrypt digest
\* that verifies some password, and a row that was just created holds the
\* digest of the password of its request body; no projection that is returned
\* (user projection, current user, login response, tokens, page of users)
\* holds the password or its digest.
C25_NoPlaintext ==
    /\ \A id \in DOMAIN users :
          /\ "password" \notin DOMAIN users[id]
          /\ users[id].hashed_password.scheme = "bcrypt"
          /\ \E p \in PasswordInputs : verify_password(p, users[id].hashed_password)
    /\ (resp.op \in {"register", "post_users"} /\ resp.result.ok) =>
          /\ Secretless(resp.result.value)
          /\ BodiesOf(users[resp.result.value.id]) # {}
          /\ \A body \in BodiesOf(users[resp.result.value.id]) :
                verify_password(body.password,
                                users[resp.result.value.id].hashed_password)
    /\ (resp.op = "get_user_by_id" /\ resp.result.ok) => Secretless(resp.result.value)
    /\ (resp.op = "get_users" /\ resp.result.ok) =>
          \A i \in DOMAIN resp.result.value.items :
              Secretless(resp.result.value.items[i])
    /\ (resp.op = "login" /\ resp.result.ok) =>
          /\ Secretless(resp.result.value)
          /\ Secretless(resp.result.value.user)
          /\ Secretless(resp.result.value.access_token.payload)
          /\ Secretless(resp.result.value.refresh_token.payload)

\* a superuser created a user, whose row holds the digest of the password sent
C25_Witness ==
    /\ resp.op = "post_users"
    /\ resp.result.ok
    /\ \E body \in BodiesOf(users[resp.result.value.id]) :
          users[resp.result.value.id].hashed_password.digest = <<"salt1", body.password>>

----------------------------------------------------------------------------
(* change_password, checked under SpecUsers *)

\* the login response the user of a row gets at the current time
LoginOf(row) == login(UserResponseSchema(row), now)

\* C26: change_password of an absent id returns false and changes nothing;
\* with a wrong current password it fails with InvalidPassword, 400, and
\* changes nothing; with the right one it returns true and stores a digest
\* with which authenticate accepts the new password and refuses the old one,
\* and the tokens of a login made before the change are accepted after it.
C26_ChangePassword ==
    [][ resp'.op = "change_password" =>
          LET id == resp'.id
              old == resp'.current_password
              new == resp'.new_password
          IN  /\ id \notin DOMAIN users =>
                    resp'.result = Ok(FALSE) /\ users' = users
              /\ (id \in DOMAIN users
                  /\ ~verify_password(old, users[id].hashed_password)) =>
                    /\ resp'.result = InvalidPasswordError
                    /\ resp'.result.status = 400
                    /\ users' = users
              /\ (id \in DOMAIN users
                  /\ verify_password(old, users[id].hashed_password)) =>
                    /\ resp'.result = Ok(TRUE)
                    /\ DOMAIN users' = DOMAIN users
                    /\ \A other \in DOMAIN users \ {id} : users'[other] = users[other]
                    /\ authenticate_check(users'[id], new) = users[id].is_active
                    /\ new # old => ~authenticate_check(users'[id], old)
                    /\ LoginOf(users[id]).ok =>
                          /\ get_current_user(users', LoginOf(users[id]).value.access_token,
                                              now).ok
                          /\ refresh_token(users', LoginOf(users[id]).value.refresh_token,
                                           now).ok ]_vars

\* an active user replaced the password by a different one
C26_Witness ==
    /\ resp.op = "change_password"
    /\ resp.result = Ok(TRUE)
    /\ resp.new_password # resp.current_password
    /\ users[resp.id].is_active
    /\ verify_password(resp.new_password, users[resp.id].hashed_password)

----------------------------------------------------------------------------
(* Authorization against the stored record, checked under SpecHttp *)

\* the is_superuser claim a token carries
ClaimedSuperuser(tok) == DictGet(tok.payload, "is_superuser", FALSE)

\* C27: a /users request whose access token names a stored active user is
\* refused with Forbidden exactly when the stored record has is_superuser
\* false, and is not refused with 401 or 403 when it has is_superuser true,
\* whatever is_superuser claim the token carries.
C27_StoredFlags ==
    [][ (/\ resp'.op \in UsersRoutes
         /\ VerifiedAccess(resp'.token)
         /\ Subject(resp'.token) \in DOMAIN users
         /\ users[Subject(resp'.token)].is_active) =>
          /\ (resp'.result = ForbiddenError) <=> ~users[Subject(resp'.token)].is_superuser
          /\ users[Subject(resp'.token)].is_superuser =>
                resp'.result.status \notin {401, 403} ]_vars

\* a token issued to a superuser is refused with Forbidden after an update
\* cleared the is_superuser flag of its user
C27_Witness ==
    /\ resp.op \in UsersRoutes
    /\ resp.result = ForbiddenError
    /\ VerifiedAccess(resp.token)
    /\ ClaimedSuperuser(resp.token)
    /\ Subject(resp.token) \in DOMAIN users
    /\ ~users[Subject(resp.token)].is_superuser

\* a token issued to a user before the promotion is accepted after it
C27_Promoted ==
    /\ resp.op \in UsersRoutes
    /\ resp.result.ok
    /\ VerifiedAccess(resp.token)
    /\ ~ClaimedSuperuser(resp.token)
    /\ users[Subject(resp.token)].is_superuser

----------------------------------------------------------------------------
(* Open registration, checked under SpecHttp *)

\* the registration bodies a stored row can have come from
BodiesFor(row) ==
    { body \in RegisterInputs : /\ NormalizeEmail(body.email) = row.email
                                /\ validate_username(body.username) = row.username }

\* C28: POST /auth/register takes no credentials; a successful registration
\* stores the is_active, is_superuser and is_verified values of the body (or
\* the schema defaults true, false, false where the body gives none), and
\* when the body asks for an active superuser, a login with the body's email
\* and password yields an access token the superuser dependency accepts.
C28_OpenRegistration ==
    [][ (resp'.op = "register" /\ resp'.result.ok) =>
          LET id == resp'.result.value.id
              row == users'[id]
          IN  /\ id \notin DOMAIN users
              /\ BodiesFor(row) # {}
              /\ \A body \in BodiesFor(row) :
                    /\ row.is_active = DictGet(body, "is_active", TRUE)
                    /\ row.is_superuser = DictGet(body, "is_superuser", FALSE)
                    /\ row.is_verified = DictGet(body, "is_verified", FALSE)
                    /\ (row.is_active /\ row.is_superuser) =>
                          /\ id \in MatchingRows(users', body.email)
                          /\ authenticate_check(row, body.password)
                          /\ LoginOf(row).ok
                          /\ get_current_superuser(users', LoginOf(row).value.access_token,
                                                   now).ok ]_vars

\* a user that registered as a superuser logged in and had a /users request
\* accepted
C28_Witness ==
    /\ resp.op \in UsersRoutes
    /\ resp.result.ok
    /\ VerifiedAccess(resp.token)
    /\ Subject(resp.token) \in DOMAIN users
    /\ users[Subject(resp.token)].username = validate_username(AliMail)
    /\ users[Subject(resp.token)].is_superuser

----------------------------------------------------------------------------
(* Interleaved creates, checked under SpecCalls *)

\* a create that passed its validation and was refused at the store write
LostTheRace(call) ==
    /\ call.op = "create"
    /\ call.pc = "done"
    /\ call.events = <<"validate", "write_raised">>

\* C29: when two creates with the same email or username both pass the
\* validation before either writes, no two stored rows share an email or a
\* username, and the create that writes second fails with the structured
\* DuplicateEmail or DuplicateUsername error, 400.
C29_LoserStructured ==
    /\ \A i, j \in DOMAIN users :
          i # j => /\ users[i].email # users[j].email
                   /\ users[i].username # users[j].username
    /\ LostTheRace(resp) =>
          /\ resp.result.status = 400
          /\ resp.result.code \in {"DUPLICATE_EMAIL", "DUPLICATE_USERNAME"}

\* what holds of the losing create: the table keeps one row per email and per
\* username, the write stores nothing, and the failure is the untyped one
C29_LoserUnstructured ==
    [][ LostTheRace(resp') =>
          /\ users' = users
          /\ resp'.result = UnstructuredError
          /\ \/ is_email_taken(users, resp'.data.email, NoneId)
             \/ is_username_taken(users, resp'.data.username, NoneId) ]_vars

\* a create lost the race
C29_Lost == LostTheRace(resp)

----------------------------------------------------------------------------
(* A row deleted under a call in flight, checked under SpecCalls *)

\* C30: an update, soft_delete or restore that loaded its entity and finds
\* the row hard-deleted when it comes to write returns none, has run its
\* validate hook and nothing after it, and leaves the table as it is, the
\* deleted row not stored again.
C30_DeletedUnderway ==
    [][ (/\ resp'.op \in {"update", "soft_delete", "restore"}
         /\ resp'.existing # NoRow
         /\ resp'.id \notin DOMAIN users) =>
          /\ resp'.result = Ok(NoValue)
          /\ resp'.events = <<"validate">>
          /\ users' = users
          /\ resp'.id \notin DOMAIN users' ]_vars

\* a call that had loaded its entity returned none because the row was gone
C30_Witness ==
    /\ resp.op \in {"update", "soft_delete", "restore"}
    /\ resp.existing # NoRow
    /\ resp.pc = "done"
    /\ resp.result = Ok(NoValue)
    /\ resp.events = <<"validate">>
    /\ resp.id \notin DOMAIN users

====
